---------------------------- MODULE Spec2Model ----------------------------
(***************************************************************************)
(* react-native-map-clustering: the clustered map view (load effect,       *)
(* spider-marker effect, region and press handlers) and its helpers        *)
(* (calculateBBox, returnMapZoom, markerToGeoJSONFeature, generateSpiral,  *)
(* returnMarkerStyle).                                                     *)
(*                                                                         *)
(* Conventions.  A JavaScript object is a record; a property that is       *)
(* absent (undefined) is a field that is not in the record's DOMAIN.  A    *)
(* JavaScript array is a sequence; element k (0-based) is seq[k + 1] and   *)
(* is undefined when k + 1 is not in DOMAIN seq.  Angles of degrees are    *)
(* integers in units of 1/10000 degree (Deg).                              *)
(***************************************************************************)
EXTENDS Integers, Sequences, FiniteSets, TLC

VARIABLES
    \* props of the component
    propsChildren, clusteringEnabled, spiralEnabled, clusterOptions,
    preserveClusterPressBehavior, platformWeb,
    \* useState cells
    markers, spiderMarkers, otherChildren, superCluster, currentRegion,
    isSpiderfier, clusterChildren,
    \* useRef cells
    currentRegionRef, superClusterRef_, externalClusterRef,
    \* the event loop: load-effect runs with a pending timer, frame callbacks,
    \* effects whose dependencies changed in the last commit
    timers, frames, dirty,
    \* allocation counter of SuperCluster instances, number of external events
    nextId, steps,
    \* observation: the last step taken, the calls it made to the caller, and
    \* the region the map last reported to be showing
    lastEvent, out, mapRegion,
    \* a call of a pure helper: its arguments and its result
    args, ret

propVars == <<propsChildren, clusteringEnabled, spiralEnabled, clusterOptions,
              preserveClusterPressBehavior, platformWeb>>
stateVars == <<markers, spiderMarkers, otherChildren, superCluster,
               currentRegion, isSpiderfier, clusterChildren>>
refVars == <<currentRegionRef, superClusterRef_, externalClusterRef>>
loopVars == <<timers, frames, dirty>>
obsVars == <<nextId, steps, lastEvent, out, mapRegion>>
callVars == <<args, ret>>
compVars == <<propVars, stateVars, refVars, loopVars, obsVars>>
vars == <<compVars, callVars>>

-----------------------------------------------------------------------------
(* Bounds of the model *)

\* external events (prop changes, map events, presses) in one behaviour
MaxSteps == 4
\* external events in one behaviour of the load specification (SpecLoad)
MaxLoadSteps == 3
\* returnMarkerStyle is applied to the point counts 0..MaxPoints
MaxPoints == 120
\* generateSpiral is applied to every point_count in 0..MaxSmallCount ...
MaxSmallCount == 210

\* ... and to these larger ones (both sides of the 500 limit, the sampling
\* steps 6, 7, 10, 13 and 20 of the large path)
LargeCounts == {300, 499, 500, 501, 524, 525, 750, 1000, 1001, 1500}

-----------------------------------------------------------------------------
(* Numbers *)

Deg(d) == d * 10000

Min(a, b) == IF a < b THEN a ELSE b
Max(a, b) == IF a > b THEN a ELSE b

\* JavaScript array access arr[k]
Has(arr, k) == (k + 1) \in DOMAIN arr
At(arr, k) == arr[k + 1]

RECURSIVE Pow2(_)
Pow2(n) == IF n <= 0 THEN 1 ELSE 2 * Pow2(n - 1)

-----------------------------------------------------------------------------
(* helpers.ts: returnMarkerStyle *)

MARKER_STYLES ==
    [t \in {4, 8, 10, 15, 25, 50, 100} |->
        CASE t = 4   -> [width |-> 54, height |-> 54, size |-> 40, fontSize |-> 16]
          [] t = 8   -> [width |-> 60, height |-> 60, size |-> 46, fontSize |-> 17]
          [] t = 10  -> [width |-> 66, height |-> 66, size |-> 50, fontSize |-> 17]
          [] t = 15  -> [width |-> 72, height |-> 72, size |-> 54, fontSize |-> 18]
          [] t = 25  -> [width |-> 78, height |-> 78, size |-> 58, fontSize |-> 19]
          [] t = 50  -> [width |-> 84, height |-> 84, size |-> 64, fontSize |-> 20]
          [] t = 100 -> [width |-> 90, height |-> 90, size |-> 70, fontSize |-> 22]]

DEFAULT_STYLE == [width |-> 48, height |-> 48, size |-> 36, fontSize |-> 15]

\* a lookup that tests the thresholds from the smallest up: every count above
\* 4 ends in the 4-tier
returnMarkerStyle_ascending(points) ==
    IF points \in DOMAIN MARKER_STYLES THEN MARKER_STYLES[points]
    ELSE IF points > 4 THEN MARKER_STYLES[4]
    ELSE IF points > 8 THEN MARKER_STYLES[8]
    ELSE IF points > 10 THEN MARKER_STYLES[10]
    ELSE IF points > 15 THEN MARKER_STYLES[15]
    ELSE IF points > 25 THEN MARKER_STYLES[25]
    ELSE IF points > 50 THEN MARKER_STYLES[50]
    ELSE IF points > 100 THEN MARKER_STYLES[100]
    ELSE DEFAULT_STYLE

\* a lookup without the clamp of counts above 100
returnMarkerStyle_noclamp(points) ==
    IF points \in DOMAIN MARKER_STYLES THEN MARKER_STYLES[points]
    ELSE IF points > 100 THEN DEFAULT_STYLE
    ELSE IF points > 50 THEN MARKER_STYLES[50]
    ELSE IF points > 25 THEN MARKER_STYLES[25]
    ELSE IF points > 15 THEN MARKER_STYLES[15]
    ELSE IF points > 10 THEN MARKER_STYLES[10]
    ELSE IF points > 8 THEN MARKER_STYLES[8]
    ELSE IF points > 4 THEN MARKER_STYLES[4]
    ELSE DEFAULT_STYLE

returnMarkerStyle(points) ==
    IF points \in DOMAIN MARKER_STYLES THEN MARKER_STYLES[points]
    ELSE IF points > 100 THEN MARKER_STYLES[100]
    ELSE IF points > 50 THEN MARKER_STYLES[50]
    ELSE IF points > 25 THEN MARKER_STYLES[25]
    ELSE IF points > 15 THEN MARKER_STYLES[15]
    ELSE IF points > 10 THEN MARKER_STYLES[10]
    ELSE IF points > 8 THEN MARKER_STYLES[8]
    ELSE IF points > 4 THEN MARKER_STYLES[4]
    ELSE DEFAULT_STYLE

-----------------------------------------------------------------------------
(* helpers.ts: isMarker, calculateBBox, returnMapZoom, markerToGeoJSONFeature *)

\* window size in logical pixels (Dimensions.get('window'))
width == 400
height == 800

\* the value null of a property
NullValue == [null |-> TRUE]

\* a classification that ignores the cluster flag
isMarker_noflag(child) ==
    /\ "props" \in DOMAIN child
    /\ "coordinate" \in DOMAIN child.props
    /\ child.props.coordinate # NullValue

\* a child is a marker iff it is an element (has props) whose coordinate is
\* truthy (present and not null) and that is not flagged cluster: false
isMarker(child) ==
    /\ "props" \in DOMAIN child
    /\ "coordinate" \in DOMAIN child.props
    /\ child.props.coordinate # NullValue
    /\ ~ ("cluster" \in DOMAIN child.props /\ child.props.cluster = FALSE)

\* a box clamped to the valid latitudes and longitudes
calculateBBox_clamped(region) ==
    LET lngD == IF region.longitudeDelta < 0
                THEN region.longitudeDelta + Deg(360)
                ELSE region.longitudeDelta
    IN  << Max(Deg(-180), region.longitude - lngD),
           Max(Deg(-90), region.latitude - region.latitudeDelta),
           Min(Deg(180), region.longitude + lngD),
           Min(Deg(90), region.latitude + region.latitudeDelta) >>

calculateBBox(region) ==
    LET lngD == IF region.longitudeDelta < 0
                THEN region.longitudeDelta + Deg(360)
                ELSE region.longitudeDelta
    IN  << region.longitude - lngD,
           region.latitude - region.latitudeDelta,
           region.longitude + lngD,
           region.latitude + region.latitudeDelta >>

\* GeoViewport.viewport(bBox, [width, height]).zoom: the greatest integer zoom
\* in 0..20 at which the box fits the window, 256-pixel tiles (the Mercator
\* stretch of latitudes is left out: a degree of latitude counts as a degree
\* of longitude)
RECURSIVE FitZoom(_, _)
FitZoom(room, z) ==
    IF z = 0 \/ Pow2(z) <= room THEN z ELSE FitZoom(room, z - 1)

ViewportZoom(bBox) ==
    LET lngSpan == bBox[3] - bBox[1]
        latSpan == bBox[4] - bBox[2]
        roomW == IF lngSpan <= 0 THEN Pow2(20)
                 ELSE ((Deg(360) \div 256) * width) \div lngSpan
        roomH == IF latSpan <= 0 THEN Pow2(20)
                 ELSE ((Deg(360) \div 256) * height) \div latSpan
    IN  FitZoom(Min(roomW, roomH), 20)

\* a shortcut that leaves out a delta of exactly 40 degrees
returnMapZoom_above40(region, bBox, minZoom) ==
    IF region.longitudeDelta > Deg(40) THEN minZoom ELSE ViewportZoom(bBox)

returnMapZoom(region, bBox, minZoom) ==
    IF region.longitudeDelta >= Deg(40) THEN minZoom ELSE ViewportZoom(bBox)

\* {point_count: 0, index, ...props}: the marker's own attributes, children
\* left out, are spread last and win over point_count and index
markerToGeoJSONFeature(marker, index) ==
    LET props == [k \in DOMAIN marker.props \ {"children"} |-> marker.props[k]]
    IN  [type |-> "Feature",
         geometry |-> [coordinates |-> << props.coordinate.longitude,
                                          props.coordinate.latitude >>,
                       type |-> "Point"],
         properties |-> [k \in {"point_count", "index"} \cup DOMAIN props |->
                            IF k \in DOMAIN props THEN props[k]
                            ELSE IF k = "point_count" THEN 0
                            ELSE index]]

-----------------------------------------------------------------------------
(* helpers.ts: generateSpiral *)

\* (the parameters clusterChildren and markers of the source are named leaves
\* and markerList here: the component's state cells have those names)
\*
\* A SpiderMarker is {index, longitude, latitude, centerPoint} with
\*   longitude = centerPoint.longitude + spiralDensity * angle * sin(angle)
\*   latitude  = centerPoint.latitude  + spiralDensity * angle * cos(angle).
\* The model keeps what determines the two coordinates: the angle in eighths
\* (angle = 0.25 * (n * 0.5) is n / 8), spiralDensity in units of 0.00001, and
\* the angle whose sine and cosine getCachedTrig hands out, in units of 1/32.

\* ANGLE_CACHE is filled for i = 0, 0.25, 0.5, ... < 200: 800 angles i / 8
CacheEntries == 800

\* variant: the key keeps one decimal only
toFixed2_coarse(angle32) == (50 * angle32 + 80) \div 160

\* angle.toFixed(2) of an angle of angle32 / 32 (exact in binary, so the
\* rounding is that of the decimal value, ties upwards), in hundredths
toFixed2(angle32) == (25 * angle32 + 4) \div 8

\* the map from key to {cos, sin}, each entry named by the angle (in 1/32) it
\* was computed from; a later map.set of the same key replaces the earlier
ANGLE_CACHE ==
    LET keys == [k \in 0..(CacheEntries - 1) |-> toFixed2(k)]
    IN  [key \in {keys[k] : k \in 0..(CacheEntries - 1)} |->
            CHOOSE k \in 0..(CacheEntries - 1) :
                /\ keys[k] = key
                /\ \A later \in (k + 1)..(CacheEntries - 1) : keys[later] # key]

\* variant: a lookup that hands out the last entry for an angle beyond the
\* cache
getCachedTrig_clamped(angle8) ==
    LET key == toFixed2(4 * angle8)
    IN  IF key \in DOMAIN ANGLE_CACHE THEN ANGLE_CACHE[key] ELSE CacheEntries - 1

\* ANGLE_CACHE.get(angle.toFixed(2)) ?? {cos: Math.cos(angle), sin: ...}
getCachedTrig(angle8) ==
    LET key == toFixed2(4 * angle8)
    IN  IF key \in DOMAIN ANGLE_CACHE THEN ANGLE_CACHE[key] ELSE 4 * angle8

\* a position that carries the sampled place in the leaf list instead of the
\* leaf's own index property
SpiderMarker_position(child, centerPoint, spiralDensity, angle8) ==
    [index |-> angle8,
     centerPoint |-> centerPoint,
     spiralDensity |-> spiralDensity,
     angle8 |-> angle8,
     trig |-> getCachedTrig(angle8)]

SpiderMarker(child, centerPoint, spiralDensity, angle8) ==
    [index |-> child.properties.index,
     centerPoint |-> centerPoint,
     spiralDensity |-> spiralDensity,
     angle8 |-> angle8,
     trig |-> getCachedTrig(angle8)]

\* child?.properties && typeof child.properties.index === 'number' (an index
\* that is not a number is modelled as an absent one)
ValidChild(leaves, k) ==
    /\ Has(leaves, k)
    /\ "properties" \in DOMAIN At(leaves, k)
    /\ "index" \in DOMAIN At(leaves, k).properties

\* markers[i].properties.point_count || 0, summed over i < index
RECURSIVE StartOffset(_, _)
StartOffset(markerList, index) ==
    IF index <= 0 THEN 0
    ELSE StartOffset(markerList, index - 1)
         + At(markerList, index - 1).properties.point_count

\* variant: a loop that visits every counter twice
Counters_halved(n) == [i \in 1..n |-> (i - 1) \div 2]

\* the loop counters 0 .. n-1, in order
Counters(n) == [i \in 1..n |-> i - 1]

\* the normal path with every leaf placed, whatever the count
MaxSpiderPoints_uncapped(count) == count

\* variant: the cap of 50 starts one point late
MaxSpiderPoints_late(count) ==
    IF count > 200 THEN 75 ELSE IF count > 101 THEN 50 ELSE count

MaxSpiderPoints(count) ==
    IF count > 200 THEN 75 ELSE IF count > 100 THEN 50 ELSE count

\* variant: the angle follows the number of positions already made, not the
\* sample number
generateSpiral_packed(marker, leaves, markerList, index) ==
    LET count == marker.properties.point_count
        centerLocation == marker.geometry.coordinates
        centerPoint == [latitude |-> centerLocation[2],
                        longitude |-> centerLocation[1]]
    IN  IF count > 500
        THEN LET sampleSize == 75
                 sampleStep == count \div sampleSize
                 kept == SelectSeq(Counters(sampleSize),
                                   LAMBDA i : ValidChild(leaves, i * sampleStep))
             IN  [j \in 1..Len(kept) |->
                    SpiderMarker(At(leaves, kept[j] * sampleStep),
                                 centerPoint, 60, j - 1)]
        ELSE LET maxSpiderPoints == MaxSpiderPoints(count)
                 start == StartOffset(markerList, index)
                 spiralDensity == IF count > 100 THEN 40
                                  ELSE IF count > 50 THEN 30 ELSE 25
                 step == IF count > maxSpiderPoints
                         THEN count \div maxSpiderPoints ELSE 1
                 positions == Min(count, maxSpiderPoints)
                 kept == SelectSeq(Counters(positions),
                                   LAMBDA i : ValidChild(leaves, i * step + start))
             IN  [j \in 1..Len(kept) |->
                    SpiderMarker(At(leaves, kept[j] * step + start),
                                 centerPoint, spiralDensity, (j - 1) * step)]

generateSpiral(marker, leaves, markerList, index) ==
    LET count == marker.properties.point_count
        centerLocation == marker.geometry.coordinates
        centerPoint == [latitude |-> centerLocation[2],
                        longitude |-> centerLocation[1]]
    IN  IF count > 500
        THEN LET sampleSize == 75
                 sampleStep == count \div sampleSize
                 kept == SelectSeq(Counters(sampleSize),
                                   LAMBDA i : ValidChild(leaves, i * sampleStep))
             IN  [j \in 1..Len(kept) |->
                    SpiderMarker(At(leaves, kept[j] * sampleStep),
                                 centerPoint, 60, kept[j])]
        ELSE LET maxSpiderPoints == MaxSpiderPoints(count)
                 start == StartOffset(markerList, index)
                 spiralDensity == IF count > 100 THEN 40
                                  ELSE IF count > 50 THEN 30 ELSE 25
                 step == IF count > maxSpiderPoints
                         THEN count \div maxSpiderPoints ELSE 1
                 positions == Min(count, maxSpiderPoints)
                 kept == SelectSeq(Counters(positions),
                                   LAMBDA i : ValidChild(leaves, i * step + start))
             IN  [j \in 1..Len(kept) |->
                    SpiderMarker(At(leaves, kept[j] * step + start),
                                 centerPoint, spiralDensity, kept[j] * step)]

-----------------------------------------------------------------------------
(* The spatial index (supercluster), by its contract: load, getClusters,     *)
(* getLeaves, getClusterExpansionZoom.  Points that fall in the same grid    *)
(* cell of a zoom level form one cluster when they are at least minPoints;   *)
(* the cell side is the clustering radius at that zoom.                      *)

NoIndex == [id |-> 0]

\* new SuperCluster(options): an empty instance, told apart by id
NewSuperCluster(options, id) ==
    [id |-> id, options |-> options, points |-> << >>, loads |-> 0]

Load(index, features) ==
    [index EXCEPT !.points = features, !.loads = @ + 1]

LimitZoom(index, zoom) ==
    Max(index.options.minZoom, Min(zoom, index.options.maxZoom + 1))

CellSide(index, z) ==
    Max(1, (Deg(360) * index.options.radius) \div (index.options.extent * Pow2(z)))

\* the grid cell of every point at zoom z, in load order (above maxZoom every
\* point is alone)
CellsAt(index, z) ==
    LET side == CellSide(index, z)
        alone == z > index.options.maxZoom
    IN  [k \in 1..Len(index.points) |->
            IF alone
            THEN << k >>
            ELSE << index.points[k].geometry.coordinates[1] \div side,
                    index.points[k].geometry.coordinates[2] \div side >>] \o << >>

\* the positions (1-based, in load order) of the points of the cell of point k
Members(index, z, k) ==
    LET cellOf == CellsAt(index, z)
        own == cellOf[k]
    IN  SelectSeq([j \in 1..Len(index.points) |-> j], LAMBDA j : cellOf[j] = own)

ClusterId(index, z, first) == (first - 1) * 32 + (z + 1) + Len(index.points)
IdZoom(index, clusterId) == ((clusterId - Len(index.points)) % 32) - 1
IdFirst(index, clusterId) == ((clusterId - Len(index.points)) \div 32) + 1

ClusterOf(index, z, members) ==
    [type |-> "Feature",
     geometry |-> [type |-> "Point",
                   coordinates |-> index.points[members[1]].geometry.coordinates],
     properties |-> [cluster |-> TRUE,
                     cluster_id |-> ClusterId(index, z, members[1]),
                     point_count |-> Len(members)]]

InBBox(bBox, coordinates) ==
    /\ bBox[1] <= coordinates[1] /\ coordinates[1] <= bBox[3]
    /\ bBox[2] <= coordinates[2] /\ coordinates[2] <= bBox[4]

getClusters(index, bBox, zoom) ==
    LET z == LimitZoom(index, zoom)
        n == Len(index.points)
        positions == [j \in 1..n |-> j]
        inBox == SelectSeq(positions,
                           LAMBDA k : InBBox(bBox, index.points[k].geometry.coordinates))
    IN  IF z > index.options.maxZoom
        THEN [i \in 1..Len(inBox) |-> index.points[inBox[i]]]
        ELSE LET cellOf == CellsAt(index, z)
                 firsts == SelectSeq(positions,
                                     LAMBDA k : \A j \in 1..(k - 1) : cellOf[j] # cellOf[k])
                 cells == [c \in 1..Len(firsts) |-> cellOf[firsts[c]]] \o << >>
                 members == [c \in 1..Len(cells) |->
                                SelectSeq(positions, LAMBDA j : cellOf[j] = cells[c])]
                              \o << >>
                 groupOf(k) == members[CHOOSE c \in 1..Len(cells) : cells[c] = cellOf[k]]
                 clustered(k) == Len(groupOf(k)) >= index.options.minPoints
                 shown == SelectSeq(inBox,
                                    LAMBDA k : clustered(k) => groupOf(k)[1] = k)
             IN  [i \in 1..Len(shown) |->
                    IF clustered(shown[i])
                    THEN ClusterOf(index, z, groupOf(shown[i]))
                    ELSE index.points[shown[i]]]

getLeaves(index, clusterId) ==
    LET mem == Members(index, IdZoom(index, clusterId), IdFirst(index, clusterId))
    IN  [i \in 1..Len(mem) |-> index.points[mem[i]]]

\* the first zoom above the cluster's own at which its points fall apart
RECURSIVE ExpandFrom(_, _, _)
ExpandFrom(index, mem, z) ==
    IF z > index.options.maxZoom THEN z
    ELSE IF Cardinality({CellsAt(index, z)[mem[i]] : i \in 1..Len(mem)}) > 1
         THEN z
         ELSE ExpandFrom(index, mem, z + 1)

getClusterExpansionZoom(index, clusterId) ==
    ExpandFrom(index,
               Members(index, IdZoom(index, clusterId), IdFirst(index, clusterId)),
               IdZoom(index, clusterId) + 1)

-----------------------------------------------------------------------------
(* Inputs: marker sets, regions, clustering options *)

\* two places two units (0.0002 degree) apart
P1 == [latitude |-> Deg(52) + 5000, longitude |-> Deg(19) + 2000]
P2 == [latitude |-> Deg(52) + 5000, longitude |-> Deg(19) + 2002]

\* a place at the corner of the doorstep around P1
Corner == [latitude |-> P1.latitude + 5, longitude |-> P1.longitude + 5]

Marker(place) == [props |-> [coordinate |-> place]]
TitledMarker(place) ==
    [props |-> [coordinate |-> place, title |-> "t", children |-> "callout"]]
UnclusteredMarker(place) == [props |-> [coordinate |-> place, cluster |-> FALSE]]
Overlay == [props |-> [style |-> "overlay"]]
TextNode == [text |-> "label"]

ChildrenOf(set) ==
    CASE set = "pair" ->
            << Marker(P1), TitledMarker(P1), Marker(P1), Overlay,
               Marker(P2), Marker(P2) >>
      [] set = "mixed" ->
            << Marker(P2), UnclusteredMarker(P1), Marker(P1), TextNode >>
      [] set = "odd" ->
            << Marker(P1), [props |-> [coordinate |-> NullValue, title |-> "t"]],
               Overlay, UnclusteredMarker(P2),
               [props |-> [coordinate |-> P1, cluster |-> TRUE]],
               TextNode, [props |-> [title |-> "t"]], Marker(P1) >>
      [] set = "crowd" ->
            [i \in 1..102 |->
                IF i > 100 THEN Marker(Corner)
                ELSE Marker([latitude |-> P1.latitude + ((i - 1) \div 10) - 5,
                             longitude |-> P1.longitude + ((i - 1) % 10) - 5])]
      [] set = "many" ->
            [i \in 1..1001 |->
                IF i % 250 = 0 THEN Overlay
                ELSE IF i % 2 = 1 THEN Marker(P1) ELSE Marker(P2)]

SmallSets == {"pair", "mixed"}

RegionAt(place, latitudeDelta, longitudeDelta) ==
    [latitude |-> place.latitude, longitude |-> place.longitude,
     latitudeDelta |-> latitudeDelta, longitudeDelta |-> longitudeDelta]

\* the whole country (zoom minZoom), a town (zoom 10), a doorstep holding both
\* places (zoom 19), a doorstep with no marker in it (zoom 19)
Wide == RegionAt(P1, Deg(50), Deg(50))
Town == RegionAt(P1, 2000, 2000)
Doorstep == RegionAt(P1, 5, 5)
Elsewhere == RegionAt([latitude |-> Deg(53), longitude |-> Deg(19)], 5, 5)

\* the component is mounted with initialRegion = Wide; the map reports these
Regions == {Town, Doorstep, Elsewhere}

DefaultOptions ==
    [radius |-> (width * 6) \div 100, maxZoom |-> 20, minZoom |-> 1,
     minPoints |-> 2, extent |-> 512, nodeSize |-> 64]

OptionSets == {DefaultOptions, [DefaultOptions EXCEPT !.minPoints = 3]}

-----------------------------------------------------------------------------
(* clustered-map-view.tsx: the load effect *)

\* null of a state cell that holds an array (clusterChildren): << >> is null,
\* << v >> is the value v
Null == << >>
Some(v) == << v >>

batchSize == 500
syncLimit == 1000

\* children[lo .. hi-1] (0-based), the loop body of the load: a marker becomes
\* a feature that carries its position, any other child is passed through
FeaturesOfRange(children, lo, hi) ==
    LET kept == SelectSeq([j \in 1..(hi - lo) |-> lo + j - 1],
                          LAMBDA i : isMarker(At(children, i)))
    IN  [j \in 1..Len(kept) |-> markerToGeoJSONFeature(At(children, kept[j]), kept[j])]

OthersOfRange(children, lo, hi) ==
    LET kept == SelectSeq([j \in 1..(hi - lo) |-> lo + j - 1],
                          LAMBDA i : ~ isMarker(At(children, i)))
    IN  [j \in 1..Len(kept) |-> At(children, kept[j])]

\* the effect's closure: the props it captured and its local variables
NewRun(children, options) ==
    [cancelled |-> FALSE, children |-> children, options |-> options,
     rawData |-> << >>, otherChildren |-> << >>, processedCount |-> 0]

\* variant: a pass that starts over when it reaches the last child
ProcessBatch_restart(run) ==
    LET endIndex == Min(run.processedCount + batchSize, Len(run.children))
    IN  IF endIndex = Len(run.children)
        THEN [run EXCEPT !.rawData = << >>, !.otherChildren = << >>,
                         !.processedCount = 0]
        ELSE [run EXCEPT
                !.rawData = @ \o FeaturesOfRange(run.children, run.processedCount, endIndex),
                !.otherChildren = @ \o OthersOfRange(run.children, run.processedCount, endIndex),
                !.processedCount = endIndex]

\* variant: a pass that resumes one child too far
ProcessBatch_skip(run) ==
    LET endIndex == Min(run.processedCount + batchSize, Len(run.children))
    IN  [run EXCEPT
            !.rawData = @ \o FeaturesOfRange(run.children, run.processedCount, endIndex),
            !.otherChildren = @ \o OthersOfRange(run.children, run.processedCount, endIndex),
            !.processedCount = endIndex + 1]

\* one pass of processNextBatch over the run's next batchSize children
ProcessBatch(run) ==
    LET endIndex == Min(run.processedCount + batchSize, Len(run.children))
    IN  [run EXCEPT
            !.rawData = @ \o FeaturesOfRange(run.children, run.processedCount, endIndex),
            !.otherChildren = @ \o OthersOfRange(run.children, run.processedCount, endIndex),
            !.processedCount = endIndex]

\* the forEach of the synchronous path
ProcessAll(run) ==
    [run EXCEPT
        !.rawData = FeaturesOfRange(run.children, 0, Len(run.children)),
        !.otherChildren = OthersOfRange(run.children, 0, Len(run.children)),
        !.processedCount = Len(run.children)]

\* a cleanup that does nothing
Cancel_noop(run) == run

\* the cleanup of the previous run of the effect: cancelled = true
Cancel(run) == [run EXCEPT !.cancelled = TRUE]

CancelAll(pending) == [i \in 1..Len(pending) |-> Cancel(pending[i])]

\* an index that is patched: the instance the component owns, if there is
\* one, is loaded again with the run's features after its own
NewIndex_patch(run) ==
    IF superCluster # NoIndex
    THEN Load(superCluster, superCluster.points \o run.rawData)
    ELSE Load(NewSuperCluster(run.options, nextId), run.rawData)

\* const cluster = new SuperCluster(clusterOptions); cluster.load(rawData)
NewIndex(run) == Load(NewSuperCluster(run.options, nextId), run.rawData)

\* createCluster: a new index loaded with the run's rawData, the clusters of
\* the region in currentRegionRef, and the three state updates; the commit
\* that follows runs the layout effect that copies superCluster to
\* superClusterRef_
CreateCluster(run) ==
    LET cluster == NewIndex(run)
        region == currentRegionRef
        bBox == calculateBBox(region)
        zoom == returnMapZoom(region, bBox, run.options.minZoom)
    IN  /\ markers' = getClusters(cluster, bBox, zoom)
        /\ otherChildren' = run.otherChildren
        /\ superCluster' = cluster
        /\ superClusterRef_' = cluster
        /\ externalClusterRef' = cluster
        /\ nextId' = nextId + 1

LoadEffect ==
    /\ "load" \in dirty
    /\ out' = << >>
    /\ UNCHANGED <<propVars, currentRegion, isSpiderfier, clusterChildren,
                   currentRegionRef, frames, steps, mapRegion>>
    /\ IF ~ clusteringEnabled
       THEN /\ spiderMarkers' = << >>
            /\ markers' = << >>
            /\ otherChildren' = propsChildren
            /\ superCluster' = NoIndex
            /\ superClusterRef_' = NoIndex
            /\ timers' = CancelAll(timers)
            /\ dirty' = {"spider"}
            /\ lastEvent' = [kind |-> "loadEffect", created |-> FALSE, cancelled |-> FALSE]
            /\ UNCHANGED <<externalClusterRef, nextId>>
       ELSE IF Len(propsChildren) <= syncLimit
       THEN /\ CreateCluster(ProcessAll(NewRun(propsChildren, clusterOptions)))
            /\ timers' = CancelAll(timers)
            /\ dirty' = {"spider"}
            /\ lastEvent' = [kind |-> "loadEffect", created |-> TRUE, cancelled |-> FALSE]
            /\ UNCHANGED spiderMarkers
       ELSE \* processChildrenInBatch: the first batch runs inside the effect
            /\ timers' = Append(CancelAll(timers),
                                ProcessBatch(NewRun(propsChildren, clusterOptions)))
            /\ dirty' = dirty \ {"load"}
            /\ lastEvent' = [kind |-> "loadEffect", created |-> FALSE, cancelled |-> FALSE]
            /\ UNCHANGED <<stateVars, superClusterRef_, externalClusterRef, nextId>>

\* a setTimeout(processNextBatch, 0) fires: timers fire in the order they
\* were set
BatchTimer ==
    /\ dirty = {}
    /\ timers # << >>
    /\ out' = << >>
    /\ UNCHANGED <<propVars, currentRegion, isSpiderfier, clusterChildren,
                   spiderMarkers, currentRegionRef, frames, steps, mapRegion>>
    /\ LET run == Head(timers)
           next == ProcessBatch(run)
       IN  IF run.cancelled
           THEN /\ timers' = Tail(timers)
                /\ lastEvent' = [kind |-> "batchTimer", created |-> FALSE, cancelled |-> TRUE]
                /\ UNCHANGED <<markers, otherChildren, superCluster, superClusterRef_,
                               externalClusterRef, nextId, dirty>>
           ELSE IF next.processedCount < Len(next.children)
           THEN /\ timers' = Append(Tail(timers), next)
                /\ lastEvent' = [kind |-> "batchTimer", created |-> FALSE,
                                 cancelled |-> run.cancelled]
                /\ UNCHANGED <<markers, otherChildren, superCluster, superClusterRef_,
                               externalClusterRef, nextId, dirty>>
           ELSE /\ timers' = Tail(timers)
                /\ CreateCluster(next)
                /\ dirty' = {"spider"}
                /\ lastEvent' = [kind |-> "batchTimer", created |-> TRUE,
                                 cancelled |-> run.cancelled]

-----------------------------------------------------------------------------
(* clustered-map-view.tsx: the spider-marker effect *)

\* markers.length > 100 ? markers.slice(0, 100) : markers
MarkersToProcess(markerList) ==
    IF Len(markerList) > 100 THEN SubSeq(markerList, 1, 100) ELSE markerList

\* marker.properties.cluster && marker.properties.cluster_id (an id of 0
\* counts as none)
IsCluster(feature) ==
    /\ "cluster" \in DOMAIN feature.properties
    /\ feature.properties.cluster
    /\ "cluster_id" \in DOMAIN feature.properties
    /\ feature.properties.cluster_id # 0

\* the forEach callback returns early for a feature that is no cluster or
\* whose cluster_id is in processedClusters
IsProcessed(markerList, i) ==
    /\ IsCluster(At(markerList, i))
    /\ \A j \in 0..(i - 1) :
          ~ /\ IsCluster(At(markerList, j))
            /\ At(markerList, j).properties.cluster_id
                  = At(markerList, i).properties.cluster_id

SpiralChildren(index, marker) ==
    IF index # NoIndex THEN getLeaves(index, marker.properties.cluster_id) ELSE << >>

\* generateSpiderMarkers over the markers and the index of the render whose
\* effect created the callback
RECURSIVE SpiderMarkersFrom(_, _, _)
SpiderMarkersFrom(markerList, index, i) ==
    IF i >= Len(MarkersToProcess(markerList)) THEN << >>
    ELSE (IF IsProcessed(markerList, i)
          THEN generateSpiral(At(markerList, i),
                              SpiralChildren(index, At(markerList, i)),
                              markerList, i)
          ELSE << >>)
         \o SpiderMarkersFrom(markerList, index, i + 1)

generateSpiderMarkers(markerList, index) == SpiderMarkersFrom(markerList, index, 0)

\* an effect that does not depend on spiderMarkers.length
SpiderDirty_never(value) == {}

\* an effect that depends on the spiderMarkers array itself: every update
\* hands it a new array
SpiderDirty_always(value) == {"spider"}

\* updateSpiderMarker(value): the effect depends on spiderMarkers.length only
SpiderDirty(value) ==
    IF Len(value) # Len(spiderMarkers) THEN {"spider"} ELSE {}

SpiderEffect ==
    /\ dirty = {"spider"}
    /\ out' = << >>
    /\ lastEvent' = [kind |-> "spiderEffect"]
    /\ UNCHANGED <<propVars, markers, otherChildren, superCluster, currentRegion,
                   isSpiderfier, clusterChildren, refVars, timers, nextId, steps,
                   mapRegion>>
    /\ IF ~ spiralEnabled
       THEN /\ dirty' = {}
            /\ UNCHANGED <<spiderMarkers, frames>>
       ELSE IF ~ isSpiderfier \/ Len(markers) = 0
       THEN /\ IF Len(spiderMarkers) > 0
               THEN spiderMarkers' = << >> /\ dirty' = SpiderDirty(<< >>)
               ELSE UNCHANGED spiderMarkers /\ dirty' = {}
            /\ UNCHANGED frames
       ELSE IF platformWeb
       THEN /\ spiderMarkers' = generateSpiderMarkers(markers, superCluster)
            /\ dirty' = SpiderDirty(spiderMarkers')
            /\ UNCHANGED frames
       ELSE /\ frames' = Append(frames, [kind |-> "generateSpiderMarkers",
                                         markers |-> markers,
                                         superCluster |-> superCluster])
            /\ dirty' = {}
            /\ UNCHANGED spiderMarkers

-----------------------------------------------------------------------------
(* clustered-map-view.tsx: handleRegionChangeComplete *)

Call(name, arguments) == [call |-> name, arguments |-> arguments]

\* zoom >= 18 && clusteredMarkers.length > 0 && clusterChildren
SpiderfyCondition(zoom, clusteredMarkers) ==
    zoom >= 18 /\ Len(clusteredMarkers) > 0 /\ clusterChildren # Null

\* variant: a handler that stores the region also when it has no index
HandleRegionChangeComplete_record(region) ==
    /\ dirty = {}
    /\ steps < MaxSteps
    /\ steps' = steps + 1
    /\ mapRegion' = region
    /\ UNCHANGED <<propVars, spiderMarkers, otherChildren, superCluster,
                   clusterChildren, superClusterRef_, externalClusterRef,
                   timers, nextId>>
    /\ IF superCluster = NoIndex
       THEN /\ out' = << Call("onRegionChangeComplete", << region, << >> >>) >>
            /\ lastEvent' = [kind |-> "regionChangeComplete", region |-> region,
                             indexed |-> FALSE]
            /\ currentRegion' = region
            /\ currentRegionRef' = region
            /\ UNCHANGED <<markers, isSpiderfier, frames, dirty>>
       ELSE LET bBox == calculateBBox(region)
                zoom == returnMapZoom(region, bBox, clusterOptions.minZoom)
                clusteredMarkers == getClusters(superCluster, bBox, zoom)
            IN  /\ isSpiderfier' =
                      IF SpiderfyCondition(zoom, clusteredMarkers)
                      THEN (IF spiralEnabled THEN TRUE ELSE isSpiderfier)
                      ELSE (IF spiralEnabled THEN FALSE ELSE isSpiderfier)
                /\ markers' = clusteredMarkers
                /\ currentRegion' = region
                /\ currentRegionRef' = region
                /\ frames' = Append(frames, [kind |-> "regionCallbacks",
                                             region |-> region,
                                             markers |-> clusteredMarkers])
                /\ dirty' = {"spider"}
                /\ out' = << >>
                /\ lastEvent' = [kind |-> "regionChangeComplete", region |-> region,
                                 indexed |-> TRUE, zoom |-> zoom]

\* variant: a handler that spiderfies whatever spiralEnabled says
HandleRegionChangeComplete_ungated(region) ==
    /\ dirty = {}
    /\ steps < MaxSteps
    /\ steps' = steps + 1
    /\ mapRegion' = region
    /\ UNCHANGED <<propVars, spiderMarkers, otherChildren, superCluster,
                   clusterChildren, superClusterRef_, externalClusterRef,
                   timers, nextId>>
    /\ IF superCluster = NoIndex
       THEN /\ out' = << Call("onRegionChangeComplete", << region, << >> >>) >>
            /\ lastEvent' = [kind |-> "regionChangeComplete", region |-> region,
                             indexed |-> FALSE]
            /\ UNCHANGED <<markers, currentRegion, isSpiderfier, currentRegionRef,
                           frames, dirty>>
       ELSE LET bBox == calculateBBox(region)
                zoom == returnMapZoom(region, bBox, clusterOptions.minZoom)
                clusteredMarkers == getClusters(superCluster, bBox, zoom)
            IN  /\ isSpiderfier' =
                      SpiderfyCondition(zoom, clusteredMarkers)
                /\ markers' = clusteredMarkers
                /\ currentRegion' = region
                /\ currentRegionRef' = region
                /\ frames' = Append(frames, [kind |-> "regionCallbacks",
                                             region |-> region,
                                             markers |-> clusteredMarkers])
                /\ dirty' = {"spider"}
                /\ out' = << >>
                /\ lastEvent' = [kind |-> "regionChangeComplete", region |-> region,
                                 indexed |-> TRUE, zoom |-> zoom]

HandleRegionChangeComplete(region) ==
    /\ dirty = {}
    /\ steps < MaxSteps
    /\ steps' = steps + 1
    /\ mapRegion' = region
    /\ UNCHANGED <<propVars, spiderMarkers, otherChildren, superCluster,
                   clusterChildren, superClusterRef_, externalClusterRef,
                   timers, nextId>>
    /\ IF superCluster = NoIndex
       THEN /\ out' = << Call("onRegionChangeComplete", << region, << >> >>) >>
            /\ lastEvent' = [kind |-> "regionChangeComplete", region |-> region,
                             indexed |-> FALSE]
            /\ UNCHANGED <<markers, currentRegion, isSpiderfier, currentRegionRef,
                           frames, dirty>>
       ELSE LET bBox == calculateBBox(region)
                zoom == returnMapZoom(region, bBox, clusterOptions.minZoom)
                clusteredMarkers == getClusters(superCluster, bBox, zoom)
            IN  /\ isSpiderfier' =
                      IF SpiderfyCondition(zoom, clusteredMarkers)
                      THEN (IF spiralEnabled THEN TRUE ELSE isSpiderfier)
                      ELSE (IF spiralEnabled THEN FALSE ELSE isSpiderfier)
                /\ markers' = clusteredMarkers
                /\ currentRegion' = region
                /\ currentRegionRef' = region
                /\ frames' = Append(frames, [kind |-> "regionCallbacks",
                                             region |-> region,
                                             markers |-> clusteredMarkers])
                /\ dirty' = {"spider"}
                /\ out' = << >>
                /\ lastEvent' = [kind |-> "regionChangeComplete", region |-> region,
                                 indexed |-> TRUE, zoom |-> zoom]

-----------------------------------------------------------------------------
(* clustered-map-view.tsx: handleClusterPress *)

\* what may throw inside the try block: nothing, getClusterExpansionZoom, or
\* the caller's onClusterPress
PressFailures == {"none", "getClusterExpansionZoom", "onClusterPress"}

\* the default of the edgePadding prop
edgePadding == [top |-> 50, left |-> 50, right |-> 50, bottom |-> 50]

\* variant: latitude and longitude taken from the wrong ends of the pair
LeafCoordinates_swapped(leaves) ==
    [i \in 1..Len(leaves) |->
        [latitude |-> leaves[i].geometry.coordinates[1],
         longitude |-> leaves[i].geometry.coordinates[2]]]

LeafCoordinates(leaves) ==
    [i \in 1..Len(leaves) |->
        [latitude |-> leaves[i].geometry.coordinates[2],
         longitude |-> leaves[i].geometry.coordinates[1]]]

\* variant: the expansion zoom taken as the index returns it
ExpansionRegion_unclamped(index, cluster) ==
    LET expansionZoom == getClusterExpansionZoom(index, cluster.properties.cluster_id)
        latDelta == Deg(100) \div Pow2(expansionZoom - 1)
    IN  [latitude |-> cluster.geometry.coordinates[2],
         longitude |-> cluster.geometry.coordinates[1],
         latitudeDelta |-> latDelta,
         longitudeDelta |-> (latDelta * width) \div height]

\* the region of animateToRegion: latDelta = 100 / 2 ** (expansionZoom - 1),
\* lngDelta = latDelta * (width / height)
ExpansionRegion(index, cluster) ==
    LET expansionZoom == Min(getClusterExpansionZoom(index, cluster.properties.cluster_id),
                             clusterOptions.maxZoom)
        latDelta == Deg(100) \div Pow2(expansionZoom - 1)
    IN  [latitude |-> cluster.geometry.coordinates[2],
         longitude |-> cluster.geometry.coordinates[1],
         latitudeDelta |-> latDelta,
         longitudeDelta |-> (latDelta * width) \div height]

\* the cluster markers on the map: clusters are not rendered while spiderfied
Pressable == {i \in 1..Len(markers) : markers[i].properties.point_count # 0 /\ ~ isSpiderfier}

\* variant: the press zooms whatever preserveClusterPressBehavior says
HandleClusterPress_navigate(cluster, failure) ==
    /\ dirty = {}
    /\ steps < MaxSteps
    /\ steps' = steps + 1
    /\ superClusterRef_ # NoIndex
    /\ lastEvent' = [kind |-> "clusterPress", cluster |-> cluster, failure |-> failure]
    /\ dirty' = {}
    /\ UNCHANGED <<propVars, markers, spiderMarkers, otherChildren, superCluster,
                   currentRegion, isSpiderfier, refVars, timers, nextId, mapRegion>>
    /\ IF "cluster_id" \notin DOMAIN cluster.properties
       THEN /\ clusterChildren' = Some(<< >>)
            /\ out' = << Call("onClusterPress", << cluster, << >> >>) >>
            /\ UNCHANGED frames
       ELSE LET leaves == getLeaves(superClusterRef_, cluster.properties.cluster_id)
            IN  /\ clusterChildren' = Some(leaves)
                /\ IF failure = "getClusterExpansionZoom"
                   THEN /\ frames' = Append(frames, [kind |-> "fitToLeaves",
                                                     cluster |-> cluster,
                                                     leaves |-> leaves])
                        /\ out' = << >>
                   ELSE IF failure = "onClusterPress"
                   THEN /\ frames' = Append(frames, [kind |-> "fitToLeaves",
                                                     cluster |-> cluster,
                                                     leaves |-> leaves])
                        /\ out' = << Call("animateToRegion",
                                          << ExpansionRegion(superClusterRef_, cluster), 250 >>),
                                     Call("onClusterPress", << cluster, leaves >>) >>
                   ELSE /\ out' = << Call("animateToRegion",
                                          << ExpansionRegion(superClusterRef_, cluster), 250 >>),
                                     Call("onClusterPress", << cluster, leaves >>) >>
                        /\ UNCHANGED frames

HandleClusterPress(cluster, failure) ==
    /\ dirty = {}
    /\ steps < MaxSteps
    /\ steps' = steps + 1
    /\ superClusterRef_ # NoIndex
    /\ lastEvent' = [kind |-> "clusterPress", cluster |-> cluster, failure |-> failure]
    /\ dirty' = {}
    /\ UNCHANGED <<propVars, markers, spiderMarkers, otherChildren, superCluster,
                   currentRegion, isSpiderfier, refVars, timers, nextId, mapRegion>>
    /\ IF "cluster_id" \notin DOMAIN cluster.properties
       THEN /\ clusterChildren' = Some(<< >>)
            /\ out' = << Call("onClusterPress", << cluster, << >> >>) >>
            /\ UNCHANGED frames
       ELSE LET leaves == getLeaves(superClusterRef_, cluster.properties.cluster_id)
            IN  /\ clusterChildren' = Some(leaves)
                /\ IF preserveClusterPressBehavior
                   THEN /\ frames' = Append(frames, [kind |-> "pressCallback",
                                                     cluster |-> cluster,
                                                     leaves |-> leaves])
                        /\ out' = << >>
                   ELSE IF failure = "getClusterExpansionZoom"
                   THEN /\ frames' = Append(frames, [kind |-> "fitToLeaves",
                                                     cluster |-> cluster,
                                                     leaves |-> leaves])
                        /\ out' = << >>
                   ELSE IF failure = "onClusterPress"
                   THEN /\ frames' = Append(frames, [kind |-> "fitToLeaves",
                                                     cluster |-> cluster,
                                                     leaves |-> leaves])
                        /\ out' = << Call("animateToRegion",
                                          << ExpansionRegion(superClusterRef_, cluster), 250 >>),
                                     Call("onClusterPress", << cluster, leaves >>) >>
                   ELSE /\ out' = << Call("animateToRegion",
                                          << ExpansionRegion(superClusterRef_, cluster), 250 >>),
                                     Call("onClusterPress", << cluster, leaves >>) >>
                        /\ UNCHANGED frames

-----------------------------------------------------------------------------
(* The next frame: requestAnimationFrame callbacks run in the order they     *)
(* were requested                                                            *)

FrameCallback ==
    /\ dirty = {}
    /\ frames # << >>
    /\ frames' = Tail(frames)
    /\ lastEvent' = [kind |-> "frame", callback |-> Head(frames).kind]
    /\ UNCHANGED <<propVars, markers, otherChildren, superCluster, currentRegion,
                   isSpiderfier, clusterChildren, refVars, timers, nextId, steps,
                   mapRegion>>
    /\ LET f == Head(frames)
       IN  CASE f.kind = "generateSpiderMarkers" ->
                    /\ spiderMarkers' = generateSpiderMarkers(f.markers, f.superCluster)
                    /\ dirty' = SpiderDirty(spiderMarkers')
                    /\ out' = << >>
             [] f.kind = "regionCallbacks" ->
                    /\ out' = << Call("onMarkersChange", << f.markers >>),
                                 Call("onRegionChangeComplete", << f.region, f.markers >>) >>
                    /\ UNCHANGED <<spiderMarkers, dirty>>
             [] f.kind = "pressCallback" ->
                    /\ out' = << Call("onClusterPress", << f.cluster, f.leaves >>) >>
                    /\ UNCHANGED <<spiderMarkers, dirty>>
             [] f.kind = "fitToLeaves" ->
                    /\ out' = (IF Len(f.leaves) > 0
                               THEN << Call("fitToCoordinates",
                                            << LeafCoordinates(f.leaves),
                                               [edgePadding |-> edgePadding] >>) >>
                               ELSE << >>)
                              \o << Call("onClusterPress", << f.cluster, f.leaves >>) >>
                    /\ UNCHANGED <<spiderMarkers, dirty>>

-----------------------------------------------------------------------------
(* The parent renders the component with new props *)

PropChange(kind) ==
    /\ dirty = {}
    /\ steps < MaxSteps
    /\ steps' = steps + 1
    /\ out' = << >>
    /\ lastEvent' = [kind |-> kind]
    /\ UNCHANGED <<preserveClusterPressBehavior, platformWeb, stateVars, refVars,
                   timers, frames, nextId, mapRegion>>

\* new children: a new array, whether or not its content changed
SetChildren(set) ==
    /\ PropChange("children")
    /\ propsChildren' = ChildrenOf(set)
    /\ dirty' = {"load"}
    /\ UNCHANGED <<clusteringEnabled, spiralEnabled, clusterOptions>>

SetClusteringEnabled ==
    /\ PropChange("clusteringEnabled")
    /\ clusteringEnabled' = ~ clusteringEnabled
    /\ dirty' = {"load"}
    /\ UNCHANGED <<propsChildren, spiralEnabled, clusterOptions>>

SetClusterOptions(options) ==
    /\ PropChange("clusterOptions")
    /\ options # clusterOptions
    /\ clusterOptions' = options
    /\ dirty' = {"load"}
    /\ UNCHANGED <<propsChildren, clusteringEnabled, spiralEnabled>>

SetSpiralEnabled ==
    /\ PropChange("spiralEnabled")
    /\ spiralEnabled' = ~ spiralEnabled
    /\ dirty' = {"spider"}
    /\ UNCHANGED <<propsChildren, clusteringEnabled, clusterOptions>>

-----------------------------------------------------------------------------
(* The component: mounted with an initial region, the load effect pending    *)

NoCall == [fn |-> "none"]

\* the first render with children of one of the sets and the given
\* spiralEnabled; the other props have their defaults
Mount(sets, spiral) ==
    /\ propsChildren \in {ChildrenOf(set) : set \in sets}
    /\ clusteringEnabled = TRUE
    /\ spiralEnabled = spiral
    /\ clusterOptions = DefaultOptions
    /\ preserveClusterPressBehavior \in BOOLEAN
    /\ platformWeb \in BOOLEAN
    /\ markers = << >>
    /\ spiderMarkers = << >>
    /\ otherChildren = << >>
    /\ superCluster = NoIndex
    /\ currentRegion = Wide
    /\ isSpiderfier = FALSE
    /\ clusterChildren = Null
    /\ currentRegionRef = Wide
    /\ superClusterRef_ = NoIndex
    /\ externalClusterRef = NoIndex
    /\ timers = << >>
    /\ frames = << >>
    /\ dirty = {"load"}
    /\ nextId = 1
    /\ steps = 0
    /\ lastEvent = [kind |-> "mount"]
    /\ out = << >>
    /\ mapRegion = Wide

\* spiralEnabled = true is the default of the prop
InitWith(sets) == Mount(sets, TRUE)

Init ==
    /\ InitWith(SmallSets)
    /\ args = NoCall
    /\ ret = NoCall

Next ==
    \/ LoadEffect /\ UNCHANGED callVars
    \/ SpiderEffect /\ UNCHANGED callVars
    \/ FrameCallback /\ UNCHANGED callVars
    \/ \E region \in Regions : HandleRegionChangeComplete(region) /\ UNCHANGED callVars
    \/ \E i \in Pressable, failure \in PressFailures :
          HandleClusterPress(markers[i], failure) /\ UNCHANGED callVars
    \/ \E set \in SmallSets : SetChildren(set) /\ UNCHANGED callVars
    \/ SetClusteringEnabled /\ UNCHANGED callVars
    \/ \E options \in OptionSets : SetClusterOptions(options) /\ UNCHANGED callVars
    \/ SetSpiralEnabled /\ UNCHANGED callVars

Spec == Init /\ [][Next]_vars

-----------------------------------------------------------------------------
(* The load of large marker sets: the same component, mounted with or given  *)
(* more than syncLimit children, without presses (so never spiderfied)       *)

\* a set of at most syncLimit children and one of more
LoadSets == {"pair", "many"}
LoadRegions == {Town, Doorstep}

InitLoad ==
    /\ InitWith(LoadSets)
    /\ args = NoCall
    /\ ret = NoCall
    /\ ~ preserveClusterPressBehavior
    /\ ~ platformWeb

NextLoad ==
    \/ LoadEffect /\ UNCHANGED callVars
    \/ SpiderEffect /\ UNCHANGED callVars
    \/ BatchTimer /\ UNCHANGED callVars
    \/ FrameCallback /\ UNCHANGED callVars
    \/ /\ steps < MaxLoadSteps
       /\ \E region \in LoadRegions : HandleRegionChangeComplete(region)
       /\ UNCHANGED callVars
    \/ /\ steps < MaxLoadSteps
       /\ \E set \in LoadSets : SetChildren(set)
       /\ UNCHANGED callVars
    \/ /\ steps < MaxLoadSteps
       /\ SetClusteringEnabled
       /\ UNCHANGED callVars
    \/ /\ steps < MaxLoadSteps
       /\ \E options \in OptionSets : SetClusterOptions(options)
       /\ UNCHANGED callVars

SpecLoad == InitLoad /\ [][NextLoad]_vars

-----------------------------------------------------------------------------
(* A call of returnMarkerStyle, beside a component that is mounted and idle  *)

Mounted ==
    /\ InitWith({"pair"})
    /\ ~ preserveClusterPressBehavior
    /\ ~ platformWeb

InitStyle ==
    /\ Mounted
    /\ args \in [fn : {"returnMarkerStyle"}, points : 0..MaxPoints]
    /\ ret = NoCall

CallReturnMarkerStyle ==
    /\ args.fn = "returnMarkerStyle"
    /\ ret = NoCall
    /\ ret' = [fn |-> "returnMarkerStyle", value |-> returnMarkerStyle(args.points)]
    /\ UNCHANGED <<args, compVars>>

NextStyle == CallReturnMarkerStyle

SpecStyle == InitStyle /\ [][NextStyle]_vars

-----------------------------------------------------------------------------
(* A call of generateSpiral: a cluster of point_count count at the end of a  *)
(* markers list, with a list of leaves                                       *)

ClusterFeature(count) ==
    [type |-> "Feature",
     geometry |-> [type |-> "Point", coordinates |-> << P1.longitude, P1.latitude >>],
     properties |-> [cluster |-> TRUE, cluster_id |-> 1000 + count,
                     point_count |-> count]]

\* leaf k (0-based) of a cluster, as markerToGeoJSONFeature made it from child
\* 2k + 1 of the marker list
LeafFeature(k) == markerToGeoJSONFeature(Marker(P1), 2 * k + 1)

\* the leaf lists: the cluster's own leaves; half of them; twice as many;
\* all of them, some without an index and some without properties
LeafShapes == {"own", "half", "twice", "gaps"}

LeafAt(shape, k) ==
    IF shape = "gaps" /\ k % 7 = 3 THEN [type |-> "Feature"]
    ELSE IF shape = "gaps" /\ k % 3 = 1
    THEN [type |-> "Feature", properties |-> [point_count |-> 0]]
    ELSE LeafFeature(k)

LeavesOf(shape, count) ==
    [k \in 1..(CASE shape = "half" -> count \div 2
                 [] shape = "twice" -> 2 * count
                 [] OTHER -> count) |->
        LeafAt(shape, k - 1)] \o << >>

\* what precedes the cluster in the markers list
Precedings ==
    { << >>,
      << LeafFeature(0) >>,
      << ClusterFeature(2) >>,
      << ClusterFeature(3), LeafFeature(0) >> }

SpiralCounts == (0..MaxSmallCount) \cup LargeCounts

InitSpiral ==
    /\ Mounted
    /\ \E count \in SpiralCounts, shape \in LeafShapes, preceding \in Precedings :
          args = [fn |-> "generateSpiral",
                  marker |-> ClusterFeature(count),
                  leaves |-> LeavesOf(shape, count),
                  markerList |-> preceding \o << ClusterFeature(count) >>,
                  index |-> Len(preceding)]
    /\ ret = NoCall

CallGenerateSpiral ==
    /\ args.fn = "generateSpiral"
    /\ ret = NoCall
    /\ ret' = [fn |-> "generateSpiral",
               value |-> generateSpiral(args.marker, args.leaves,
                                        args.markerList, args.index)]
    /\ UNCHANGED <<args, compVars>>

NextSpiral == CallGenerateSpiral

SpecSpiral == InitSpiral /\ [][NextSpiral]_vars

-----------------------------------------------------------------------------
(* Properties: the spiderfy state machine *)

\* the step just taken is a viewport-settle event handled with an index loaded
Settled == lastEvent.kind = "regionChangeComplete" /\ lastEvent.indexed

SomeCluster(markerList) == \E i \in DOMAIN markerList : IsCluster(markerList[i])

\* C1: a viewport-settle event handled with an index loaded, a derived zoom
\* of 18 or more, spiralEnabled true and at least one cluster in the query
\* result leaves the component spiderfied (isSpiderfier = true).
C1_SpiderfiedAtHighZoom ==
    (Settled /\ lastEvent.zoom >= 18 /\ spiralEnabled /\ SomeCluster(markers))
        => isSpiderfier

\* nothing is left to run: no effect is pending and no frame will generate
\* spider markers
SpiderWorkDone ==
    /\ dirty = {}
    /\ \A i \in DOMAIN frames : frames[i].kind # "generateSpiderMarkers"

\* C2: a viewport-settle event handled with an index loaded, spiralEnabled
\* true and a derived zoom below 18 leaves isSpiderfier false, and once the
\* effects and the frame callbacks have run while the component is not
\* spiderfied the list of spider positions is empty.
C2_ClusteredBelowThreshold ==
    /\ (Settled /\ lastEvent.zoom < 18 /\ spiralEnabled) => ~ isSpiderfier
    /\ (SpiderWorkDone /\ spiralEnabled /\ ~ isSpiderfier) => spiderMarkers = << >>

\* a settle event below the threshold has just ended the spiderfied state and
\* the spider positions are still there
C2_Witness ==
    /\ Settled /\ lastEvent.zoom < 18 /\ spiralEnabled
    /\ ~ isSpiderfier
    /\ spiderMarkers # << >>

-----------------------------------------------------------------------------
(* Properties: the load *)

\* the step just taken completed a load (createCluster ran)
LoadCompleted ==
    lastEvent.kind \in {"loadEffect", "batchTimer"} /\ lastEvent.created

\* the step just taken was the timer of a run that had been cancelled
StaleTimerFired == lastEvent.kind = "batchTimer" /\ lastEvent.cancelled

\* no load is pending: the load effect has run for the current props and no
\* run that is not cancelled waits for a timer
LoadSettled ==
    /\ "load" \notin dirty
    /\ \A i \in DOMAIN timers : timers[i].cancelled

\* the features of a marker list: one per child that passes isMarker, with
\* index the child's position in the list
ExpectedPoints(children) ==
    LET kept == SelectSeq([i \in 1..Len(children) |-> i - 1],
                          LAMBDA i : isMarker(At(children, i)))
    IN  [j \in 1..Len(kept) |-> markerToGeoJSONFeature(At(children, kept[j]), kept[j])]

ExpectedOthers(children) ==
    LET kept == SelectSeq([i \in 1..Len(children) |-> i - 1],
                          LAMBDA i : ~ isMarker(At(children, i)))
    IN  [j \in 1..Len(kept) |-> At(children, kept[j])]

ClustersOf(index, region) ==
    getClusters(index, calculateBBox(region),
                returnMapZoom(region, calculateBBox(region), index.options.minZoom))

\* C3: a run of the load that was superseded never commits, and once no load
\* is pending the index, the cluster list, the other children and the
\* external index reference are those of the newest run: built from the
\* current children and options, by the instance constructed last.
C3_OnlyNewestRunCommits ==
    /\ StaleTimerFired => ~ lastEvent.created
    /\ (LoadSettled /\ clusteringEnabled) =>
          /\ superCluster # NoIndex
          /\ superCluster.id = nextId - 1
          /\ superCluster.options = clusterOptions
          /\ superCluster.points = ExpectedPoints(propsChildren)
          /\ otherChildren = ExpectedOthers(propsChildren)
          /\ externalClusterRef = superCluster
          /\ \E region \in {Wide} \cup LoadRegions :
                markers = ClustersOf(superCluster, region)

\* the component was mounted with more than syncLimit children, its options
\* changed before that load was complete, and the batched load of the newest
\* run has now built the first index the component ever owned
C3_Witness ==
    /\ LoadCompleted
    /\ LoadSettled
    /\ lastEvent.kind = "batchTimer"
    /\ superCluster.id = 1
    /\ clusterOptions # DefaultOptions

\* C4: when a rebuild of the index completes (a load after the first one the
\* component completed), the cluster list is getClusters for the region of
\* the most recent viewport-settle event the map delivered (the initial
\* region if there was none).
C4_ClustersOfLastSettledRegion ==
    (LoadCompleted /\ superCluster.id > 1)
        => markers = ClustersOf(superCluster, mapRegion)

-----------------------------------------------------------------------------
(* Properties: generateSpiral *)

SpiralReturned == ret # NoCall /\ ret.fn = "generateSpiral"

\* C6: for a cluster of point_count above 100, generateSpiral returns at most
\* 75 positions, and at most 50 when the point_count is in 101..200.
C6_AtMost75Positions ==
    SpiralReturned =>
        LET count == args.marker.properties.point_count
        IN  /\ count > 100 => Len(ret.value) <= 75
            /\ count \in 101..200 => Len(ret.value) <= 50

\* a cluster of 1000 points with its own leaves gets 75 positions
C6_Witness ==
    /\ SpiralReturned
    /\ args.marker.properties.point_count = 1000
    /\ Len(args.leaves) = 1000
    /\ Len(ret.value) = 75

\* C7: the index of every position that generateSpiral returns is the index
\* property of some element of the leaf list given to the call.
C7_NoFabricatedIndex ==
    SpiralReturned =>
        \A j \in DOMAIN ret.value :
            \E k \in DOMAIN args.leaves :
                /\ "properties" \in DOMAIN args.leaves[k]
                /\ "index" \in DOMAIN args.leaves[k].properties
                /\ args.leaves[k].properties.index = ret.value[j].index

\* positions were returned for a cluster that is not the first of the markers
\* list and whose leaf list has elements without an index
C7_Witness ==
    /\ SpiralReturned
    /\ args.index > 0
    /\ Len(ret.value) > 1
    /\ \E k \in DOMAIN args.leaves : ~ ValidChild(args.leaves, k - 1)

\* C8: a cluster of point_count N <= 100 that is given its own N leaves, each
\* with a numeric index, gets exactly N positions, one per leaf, wherever the
\* cluster is in the markers list and whatever precedes it.
C8_OnePositionPerLeaf ==
    (/\ SpiralReturned
     /\ args.marker.properties.point_count <= 100
     /\ Len(args.leaves) = args.marker.properties.point_count
     /\ \A k \in DOMAIN args.leaves : ValidChild(args.leaves, k - 1))
        => /\ Len(ret.value) = Len(args.leaves)
           /\ \A j \in DOMAIN ret.value :
                 ret.value[j].index = args.leaves[j].properties.index

-----------------------------------------------------------------------------
(* Properties: returnMarkerStyle *)

StyleReturned == ret # NoCall /\ ret.fn = "returnMarkerStyle"

\* C9: returnMarkerStyle is monotone in size: a smaller point count never
\* gets a greater size.
C9_SizeMonotone ==
    StyleReturned =>
        \A q \in 0..MaxPoints :
            /\ q < args.points => returnMarkerStyle(q).size <= ret.value.size
            /\ q > args.points => ret.value.size <= returnMarkerStyle(q).size

\* the style of a count between two thresholds, above the smallest tier
C9_Witness ==
    /\ StyleReturned
    /\ args.points = 26
    /\ ret.value.size > returnMarkerStyle(4).size

Thresholds == {4, 8, 10, 15, 25, 50, 100}

\* C10: returnMarkerStyle(c) is the tier of the greatest threshold that is at
\* most c, the default tier {48, 48, 36, 15} when c < 4 and the 100-tier when
\* c > 100; returnMarkerStyle(4) is {54, 54, 40, 16}.
C10_TierOfGreatestThreshold ==
    StyleReturned =>
        LET c == args.points
            below == {t \in Thresholds : t <= c}
        IN  /\ below = {} =>
                  ret.value = [width |-> 48, height |-> 48, size |-> 36, fontSize |-> 15]
            /\ below # {} =>
                  ret.value = MARKER_STYLES[CHOOSE t \in below : \A u \in below : u <= t]
            /\ c > 100 => ret.value = MARKER_STYLES[100]
            /\ c = 4 =>
                  ret.value = [width |-> 54, height |-> 54, size |-> 40, fontSize |-> 16]

\* the style of a count above 100
C10_Witness ==
    /\ StyleReturned
    /\ args.points > 100
    /\ ret.value = MARKER_STYLES[100]

-----------------------------------------------------------------------------
(* Calls of calculateBBox, returnMapZoom and markerToGeoJSONFeature          *)

\* regions of every sign and size of longitudeDelta, near and far from the
\* poles and the date line
BBoxRegions ==
    [latitude : {Deg(-85), 0, Deg(52) + 5000, Deg(85)},
     longitude : {Deg(-179), Deg(19) + 2000, Deg(179)},
     latitudeDelta : {0, Deg(8) + 5000, Deg(10)},
     longitudeDelta : {Deg(-350), Deg(-10), -1, 0, Deg(8) + 5000,
                       Deg(40) - 1, Deg(40), Deg(50)}]

\* regions on both sides of the 40 degree shortcut, and negative deltas
ZoomRegions ==
    {RegionAt(P1, lat, lng) :
        lat \in {5, Deg(50)},
        lng \in {Deg(-10), Deg(-350), 5, 2000, Deg(40) - 1, Deg(40), Deg(50)}}

\* the bounding boxes given with region: its own, a doorstep, the world
ZoomBoxes(region) ==
    { calculateBBox(region),
      << P1.longitude - 5, P1.latitude - 5, P1.longitude + 5, P1.latitude + 5 >>,
      << Deg(-180), Deg(-85), Deg(180), Deg(85) >> }

MinZooms == {0, 1, 3}

\* marker elements: plain, with a callout as children, with attributes of
\* their own, and with attributes named index and point_count
FeatureMarkers ==
    { Marker(P1),
      TitledMarker(P2),
      [props |-> [coordinate |-> P1, title |-> "t", pinColor |-> "red",
                  cluster |-> TRUE]],
      [props |-> [coordinate |-> P2, index |-> 7]],
      [props |-> [coordinate |-> P1, point_count |-> 5, children |-> "callout"]] }

MaxIndex == 8

InitHelpers ==
    /\ Mounted
    /\ ret = NoCall
    /\ \/ \E region \in BBoxRegions :
             args = [fn |-> "calculateBBox", region |-> region]
       \/ \E region \in ZoomRegions, minZoom \in MinZooms :
             \E bBox \in ZoomBoxes(region) :
                args = [fn |-> "returnMapZoom", region |-> region,
                        bBox |-> bBox, minZoom |-> minZoom]
       \/ \E marker \in FeatureMarkers, index \in 0..MaxIndex :
             args = [fn |-> "markerToGeoJSONFeature", marker |-> marker,
                     index |-> index]

CallCalculateBBox ==
    /\ args.fn = "calculateBBox"
    /\ ret = NoCall
    /\ ret' = [fn |-> "calculateBBox", value |-> calculateBBox(args.region)]
    /\ UNCHANGED <<args, compVars>>

CallReturnMapZoom ==
    /\ args.fn = "returnMapZoom"
    /\ ret = NoCall
    /\ ret' = [fn |-> "returnMapZoom",
               value |-> returnMapZoom(args.region, args.bBox, args.minZoom)]
    /\ UNCHANGED <<args, compVars>>

CallMarkerToGeoJSONFeature ==
    /\ args.fn = "markerToGeoJSONFeature"
    /\ ret = NoCall
    /\ ret' = [fn |-> "markerToGeoJSONFeature",
               value |-> markerToGeoJSONFeature(args.marker, args.index)]
    /\ UNCHANGED <<args, compVars>>

NextHelpers ==
    \/ CallCalculateBBox
    \/ CallReturnMapZoom
    \/ CallMarkerToGeoJSONFeature

SpecHelpers == InitHelpers /\ [][NextHelpers]_vars

-----------------------------------------------------------------------------
(* Properties: calculateBBox, returnMapZoom, markerToGeoJSONFeature *)

Returned(fn) == ret # NoCall /\ ret.fn = fn

\* C11: calculateBBox returns [longitude - d, latitude - latitudeDelta,
\* longitude + d, latitude + latitudeDelta] with d = longitudeDelta + 360 for
\* a negative longitudeDelta and d = longitudeDelta otherwise, unclamped;
\* longitudeDelta -10 gives d = 350, 0 gives d = 0, and the region
\* {52.5, 19.2, 8.5, 8.5} gives [10.7, 44.0, 27.7, 61.0].
C11_BBoxOfRegion ==
    Returned("calculateBBox") =>
        LET r == args.region
            d == IF r.longitudeDelta < 0 THEN r.longitudeDelta + 3600000
                 ELSE r.longitudeDelta
        IN  /\ ret.value = << r.longitude - d, r.latitude - r.latitudeDelta,
                              r.longitude + d, r.latitude + r.latitudeDelta >>
            /\ r.longitudeDelta = -100000 =>
                  /\ ret.value[1] = r.longitude - 3500000
                  /\ ret.value[3] = r.longitude + 3500000
            /\ r.longitudeDelta = 0 =>
                  ret.value[1] = r.longitude /\ ret.value[3] = r.longitude
            /\ r = [latitude |-> 525000, longitude |-> 192000,
                    latitudeDelta |-> 85000, longitudeDelta |-> 85000] =>
                  ret.value = << 107000, 440000, 277000, 610000 >>

\* the box of a region near the pole with a negative longitudeDelta: its
\* latitude passes 90 degrees and its longitudes pass 180 degrees
C11_Witness ==
    /\ Returned("calculateBBox")
    /\ args.region.longitudeDelta = Deg(-10)
    /\ ret.value[4] > Deg(90)
    /\ ret.value[1] < Deg(-180)
    /\ ret.value[3] - ret.value[1] = Deg(700)

\* C12: for a region with longitudeDelta >= 40, returnMapZoom returns minZoom
\* whatever the bounding box and minZoom are.
C12_MinZoomFrom40Degrees ==
    (Returned("returnMapZoom") /\ args.region.longitudeDelta >= 400000)
        => ret.value = args.minZoom

\* a delta of exactly 40 degrees, with a box that fits at another zoom
C12_Witness ==
    /\ Returned("returnMapZoom")
    /\ args.region.longitudeDelta = Deg(40)
    /\ ViewportZoom(args.bBox) # args.minZoom
    /\ ret.value = args.minZoom

\* C13: a negative longitudeDelta is corrected to longitudeDelta + 360 before
\* the zoom is derived, as it is for the bounding box: a region whose
\* corrected delta is 40 degrees or more (longitudeDelta = -10) yields
\* minZoom.
C13_CorrectedDeltaInZoom ==
    (/\ Returned("returnMapZoom")
     /\ args.region.longitudeDelta < 0
     /\ args.region.longitudeDelta + 3600000 >= 400000
     /\ args.bBox = calculateBBox(args.region))
        => ret.value = args.minZoom

\* C14: markerToGeoJSONFeature(marker, i) has properties.point_count 0 and
\* properties.index i, coordinates [longitude, latitude] of the marker's
\* coordinate, and every attribute of the marker but children among its
\* properties.
C14_FeatureOfMarker ==
    Returned("markerToGeoJSONFeature") =>
        LET attrs == args.marker.props
            f == ret.value
        IN  /\ f.properties.point_count = 0
            /\ f.properties.index = args.index
            /\ f.geometry.coordinates
                  = << attrs.coordinate.longitude, attrs.coordinate.latitude >>
            /\ "children" \notin DOMAIN f.properties
            /\ \A k \in DOMAIN attrs \ {"children"} :
                  k \in DOMAIN f.properties /\ f.properties[k] = attrs[k]

-----------------------------------------------------------------------------
(* Classification of the children: calls of isMarker beside a component that *)
(* loads marker sets with children that are no markers                       *)

Candidates ==
    { Marker(P1),
      TitledMarker(P2),
      UnclusteredMarker(P1),
      [props |-> [coordinate |-> P1, cluster |-> TRUE]],
      [props |-> [coordinate |-> NullValue, title |-> "t"]],
      [props |-> [coordinate |-> NullValue, cluster |-> FALSE]],
      [props |-> [title |-> "t"]],
      [props |-> [cluster |-> FALSE]],
      Overlay,
      TextNode }

ClassifySets == {"mixed", "odd"}

InitClassify ==
    /\ Mounted
    /\ \E candidate \in Candidates : args = [fn |-> "isMarker", candidate |-> candidate]
    /\ ret = NoCall

CallIsMarker ==
    /\ args.fn = "isMarker"
    /\ ret = NoCall
    /\ ret' = [fn |-> "isMarker", value |-> isMarker(args.candidate)]
    /\ UNCHANGED <<args, compVars>>

NextClassify ==
    \/ CallIsMarker
    \/ LoadEffect /\ UNCHANGED callVars
    \/ SpiderEffect /\ UNCHANGED callVars
    \/ \E set \in ClassifySets : SetChildren(set) /\ UNCHANGED callVars
    \/ \E options \in OptionSets : SetClusterOptions(options) /\ UNCHANGED callVars

SpecClassify == InitClassify /\ [][NextClassify]_vars

\* the candidate carries a coordinate: the attribute is there and not null
HasCoordinate(candidate) ==
    /\ "props" \in DOMAIN candidate
    /\ "coordinate" \in DOMAIN candidate.props
    /\ candidate.props.coordinate # NullValue

\* C15: isMarker is true exactly of the candidates that carry a coordinate
\* and whose cluster attribute is not false; a completed load has put every
\* child that isMarker rejects in the other-children list, in order, and none
\* of them among the points of the index.
C15_MarkersClassified ==
    /\ Returned("isMarker") =>
          ret.value = (/\ HasCoordinate(args.candidate)
                       /\ ("cluster" \in DOMAIN args.candidate.props
                              => args.candidate.props.cluster # FALSE))
    /\ LoadCompleted =>
          LET rejected == SelectSeq([i \in 1..Len(propsChildren) |-> i],
                                    LAMBDA i : ~ isMarker(propsChildren[i]))
          IN  /\ Len(otherChildren) = Len(rejected)
              /\ \A k \in DOMAIN rejected :
                    /\ otherChildren[k] = propsChildren[rejected[k]]
                    /\ \A j \in DOMAIN superCluster.points :
                          superCluster.points[j].properties.index # rejected[k] - 1
              /\ Len(superCluster.points) + Len(rejected) = Len(propsChildren)

\* a load of a set that holds a marker without coordinate, a marker with a
\* null coordinate, a marker with cluster = false and a text child has
\* completed, and isMarker has rejected a candidate with a null coordinate
C15_Witness ==
    /\ LoadCompleted
    /\ propsChildren = ChildrenOf("odd")
    /\ Len(otherChildren) = 5
    /\ Returned("isMarker")
    /\ args.candidate = [props |-> [coordinate |-> NullValue, title |-> "t"]]
    /\ ret.value = FALSE

-----------------------------------------------------------------------------
(* Cluster presses *)

\* the calls that move the viewport
Navigations == {"animateToRegion", "fitToCoordinates"}

\* this step is a press of a cluster
PressStep ==
    /\ steps' = steps + 1
    /\ lastEvent'.kind = "clusterPress"

\* this step runs the oldest frame callback, and it is one of the given kind
FrameStep(kind) ==
    /\ frames # << >>
    /\ Head(frames).kind = kind
    /\ frames' = Tail(frames)
    /\ lastEvent'.kind = "frame"

\* <<cluster, leaves>> of a press of the given cluster, the leaves being
\* every point of the index under the cluster
PressArguments(cluster) ==
    LET index == superClusterRef_
        mem == Members(index, IdZoom(index, cluster.properties.cluster_id),
                              IdFirst(index, cluster.properties.cluster_id))
    IN  << cluster, [i \in 1..Len(mem) |-> index.points[mem[i]]] >>

\* C16: with preserveClusterPressBehavior a press makes no call that moves
\* the viewport, and the frame callback it leaves calls onClusterPress with
\* the cluster and all its leaves; no step makes a viewport call.
C16_PreservedPressKeepsViewport ==
    [][ preserveClusterPressBehavior =>
          /\ \A i \in DOMAIN out' : out'[i].call \notin Navigations
          /\ mapRegion' # mapRegion => lastEvent'.kind = "regionChangeComplete"
          /\ PressStep =>
                /\ out' = << >>
                /\ frames' = Append(frames,
                                    [kind |-> "pressCallback",
                                     cluster |-> lastEvent'.cluster,
                                     leaves |-> PressArguments(lastEvent'.cluster)[2]])
          /\ FrameStep("pressCallback") =>
                out' = << Call("onClusterPress",
                               << Head(frames).cluster, Head(frames).leaves >>) >>
    ]_vars

\* a preserved press of a cluster of at least two leaves has called
\* onClusterPress from its frame callback
C16_Witness ==
    /\ preserveClusterPressBehavior
    /\ lastEvent = [kind |-> "frame", callback |-> "pressCallback"]
    /\ Len(out) = 1
    /\ out[1].call = "onClusterPress"
    /\ Len(out[1].arguments[2]) >= 2
    /\ out[1].arguments[1].properties.point_count = Len(out[1].arguments[2])

\* C17: without preserveClusterPressBehavior, a press whose expansion zoom
\* throws makes no call of its own and leaves a frame callback that fits the
\* viewport to the leaves' coordinates with edgePadding 50 on every side
\* (when there is a leaf) and then calls onClusterPress with the cluster and
\* its leaves.
C17_FallbackFitsLeaves ==
    [][ ~ preserveClusterPressBehavior =>
          /\ (PressStep /\ lastEvent'.failure = "getClusterExpansionZoom") =>
                /\ out' = << >>
                /\ frames' = Append(frames,
                                    [kind |-> "fitToLeaves",
                                     cluster |-> lastEvent'.cluster,
                                     leaves |-> PressArguments(lastEvent'.cluster)[2]])
          /\ FrameStep("fitToLeaves") =>
                LET leaves == Head(frames).leaves
                    fit == Call("fitToCoordinates",
                                << [i \in 1..Len(leaves) |->
                                       [latitude |-> leaves[i].geometry.coordinates[2],
                                        longitude |-> leaves[i].geometry.coordinates[1]]],
                                   [edgePadding |-> [top |-> 50, left |-> 50,
                                                     right |-> 50, bottom |-> 50]] >>)
                    pressed == Call("onClusterPress", << Head(frames).cluster, leaves >>)
                IN  out' = IF Len(leaves) > 0 THEN << fit, pressed >> ELSE << pressed >>
    ]_vars

\* a press whose expansion zoom threw has left the callback that fits the
\* viewport to the two or more leaves of the cluster
C17_Witness ==
    /\ ~ preserveClusterPressBehavior
    /\ lastEvent.kind = "clusterPress"
    /\ lastEvent.failure = "getClusterExpansionZoom"
    /\ out = << >>
    /\ frames # << >>
    /\ frames[Len(frames)].kind = "fitToLeaves"
    /\ Len(frames[Len(frames)].leaves) >= 2

-----------------------------------------------------------------------------
(* What the caller is told and handed *)

\* this step handles a viewport-settle event with an index to query
SettleStep ==
    /\ lastEvent'.kind = "regionChangeComplete"
    /\ steps' = steps + 1
    /\ lastEvent'.indexed

\* this step completes a load that replaces the index the component had
RebuildStep ==
    /\ lastEvent'.kind \in {"loadEffect", "batchTimer"}
    /\ lastEvent' # lastEvent \/ nextId' # nextId
    /\ lastEvent'.created
    /\ superCluster # NoIndex

\* onMarkersChange has been called with the displayed list, or the callback
\* that will call it with that list is waiting for the next frame
MarkersReported ==
    \/ \E i \in DOMAIN out :
          /\ out[i].call = "onMarkersChange"
          /\ out[i].arguments = << markers >>
    \/ \E i \in DOMAIN frames :
          /\ frames[i].kind = "regionCallbacks"
          /\ frames[i].markers = markers

\* C18: every settle event and every rebuild of the index that changes the
\* displayed feature list reports the new list through onMarkersChange.
C18_MarkersChangeReported ==
    [][ ((SettleStep \/ RebuildStep) /\ markers' # markers) => MarkersReported' ]_vars

\* C19: whenever no load is in progress, the caller's superClusterRef holds
\* the very index the component queries, and no index when the component
\* holds none.
C19_CallerRefIsLiveIndex ==
    LoadSettled => externalClusterRef = superCluster

\* C20: a settle event handled while spiralEnabled is false leaves the
\* component not spiderfied, whatever it was before the event.
C20_SettleWithoutSpiralClusters ==
    [][ (SettleStep /\ ~ spiralEnabled) => ~ isSpiderfier' ]_vars

-----------------------------------------------------------------------------
(* Repeated calls of generateSpiral: the same arguments twice, with calls of *)
(* other arguments in between                                                *)

MaxBetween == 2

RepeatCounts == {1, 2, 60, 101, 150, 210, 300, 499, 500, 501, 1000, 1500}

SpiralArguments(count, shape, preceding) ==
    [marker |-> ClusterFeature(count),
     leaves |-> LeavesOf(shape, count),
     markerList |-> preceding \o << ClusterFeature(count) >>,
     index |-> Len(preceding)]

InitRepeat ==
    /\ Mounted
    /\ \E count \in RepeatCounts, shape \in LeafShapes,
          preceding \in {<< >>, << ClusterFeature(2) >>}, other \in {3, 400, 1000} :
          args = [fn |-> "generateSpiral",
                  call |-> SpiralArguments(count, shape, preceding),
                  other |-> SpiralArguments(other, "own", << >>)]
    /\ ret = NoCall

Spiral(arguments) ==
    generateSpiral(arguments.marker, arguments.leaves,
                   arguments.markerList, arguments.index)

RepeatFirst ==
    /\ ret = NoCall
    /\ ret' = [fn |-> "repeat", results |-> << Spiral(args.call) >>, others |-> << >>]
    /\ UNCHANGED <<args, compVars>>

RepeatBetween ==
    /\ ret # NoCall
    /\ Len(ret.results) = 1
    /\ Len(ret.others) < MaxBetween
    /\ ret' = [ret EXCEPT !.others = Append(@, Spiral(args.other))]
    /\ UNCHANGED <<args, compVars>>

RepeatAgain ==
    /\ ret # NoCall
    /\ Len(ret.results) = 1
    /\ ret' = [ret EXCEPT !.results = Append(@, Spiral(args.call))]
    /\ UNCHANGED <<args, compVars>>

NextRepeat ==
    \/ RepeatFirst
    \/ RepeatBetween
    \/ RepeatAgain

SpecRepeat == InitRepeat /\ [][NextRepeat]_vars

-----------------------------------------------------------------------------
(* A crowded doorstep: the component with a hundred markers that stay single *)
(* at zoom 19 and, after them in the list, two markers at one place          *)

CrowdSets == {"crowd", "mixed"}

InitCrowd ==
    /\ InitWith(CrowdSets)
    /\ args = NoCall
    /\ ret = NoCall

NextCrowd ==
    \/ LoadEffect /\ UNCHANGED callVars
    \/ SpiderEffect /\ UNCHANGED callVars
    \/ FrameCallback /\ UNCHANGED callVars
    \/ \E region \in Regions : HandleRegionChangeComplete(region) /\ UNCHANGED callVars
    \/ \E i \in Pressable, failure \in PressFailures :
          HandleClusterPress(markers[i], failure) /\ UNCHANGED callVars
    \/ \E set \in CrowdSets : SetChildren(set) /\ UNCHANGED callVars

SpecCrowd == InitCrowd /\ [][NextCrowd]_vars

\* some spider position is laid out around the feature's place
Contributes(feature) ==
    \E j \in DOMAIN spiderMarkers :
        spiderMarkers[j].centerPoint =
            [latitude |-> feature.geometry.coordinates[2],
             longitude |-> feature.geometry.coordinates[1]]

\* C22: once the spider work of a spiderfied component has run, every
\* cluster feature of the displayed list has positions in the spider list,
\* wherever it is in the list and however long the list is.
C22_EveryClusterLaidOut ==
    (isSpiderfier /\ spiralEnabled /\ SpiderWorkDone /\ superCluster # NoIndex)
        => \A i \in DOMAIN markers : IsCluster(markers[i]) => Contributes(markers[i])

-----------------------------------------------------------------------------
(* Properties: the samples of generateSpiral *)

\* the call was given the cluster's own leaves, every one with an index, and
\* nothing before the cluster in the markers list adds to the start offset
OwnLeavesFromStart ==
    /\ Len(args.leaves) = args.marker.properties.point_count
    /\ \A k \in DOMAIN args.leaves : ValidChild(args.leaves, k - 1)
    /\ \A i \in 1..args.index : args.markerList[i].properties.point_count = 0

\* C23: for a point_count in 1..500, the cluster's complete leaf list and
\* start offset 0, generateSpiral returns min(count, cap) positions, the cap
\* being 75 above 200 points, 50 above 100 and the count otherwise.
C23_PositionsUpToCap ==
    (/\ SpiralReturned
     /\ args.marker.properties.point_count \in 1..500
     /\ OwnLeavesFromStart)
        => LET count == args.marker.properties.point_count
               cap == CASE count > 200 -> 75
                        [] count > 100 /\ count <= 200 -> 50
                        [] OTHER -> count
           IN  /\ Len(ret.value) = (IF count < cap THEN count ELSE cap)
               /\ count = 100 => Len(ret.value) = 100
               /\ count \in {101, 200} => Len(ret.value) = 50
               /\ count \in {201, 500} => Len(ret.value) = 75

\* a cluster of 201 points with its own leaves, placed after a single marker,
\* got 75 positions
C23_Witness ==
    /\ SpiralReturned
    /\ args.marker.properties.point_count = 201
    /\ OwnLeavesFromStart
    /\ args.index = 1
    /\ Len(ret.value) = 75

\* the sampling step of a call: floor(count / 75) above 500 points, else
\* floor(count / cap) where the count exceeds the cap, else 1
SamplingStep(count) ==
    IF count > 500 THEN count \div 75
    ELSE IF count > 200 THEN count \div 75
    ELSE IF count > 100 THEN count \div 50
    ELSE 1

\* C24: in either path the angle of the position of sample i is
\* 0.25 * (actualIndex * 0.5) with actualIndex = i * step, step being the
\* path's sampling step (here for calls in which no sample is skipped, so
\* that position j is that of sample j - 1).
C24_AngleOfSampledLeaf ==
    (SpiralReturned /\ OwnLeavesFromStart)
        => \A j \in DOMAIN ret.value :
              ret.value[j].angle8
                 = (j - 1) * SamplingStep(args.marker.properties.point_count)

\* C25: the leaves sampled by one call are taken at strictly increasing
\* places of the leaf list, below point_count when the start offset is 0:
\* with leaves of pairwise different index (leaf k carries 2k + 1) the
\* returned indexes are strictly increasing, so none occurs twice.
C25_SamplesStrictlyIncreasing ==
    SpiralReturned =>
        /\ \A j \in DOMAIN ret.value :
              j > 1 => ret.value[j - 1].index < ret.value[j].index
        /\ \A j, k \in DOMAIN ret.value :
              j # k => ret.value[j].index # ret.value[k].index
        /\ (\A i \in 1..args.index : args.markerList[i].properties.point_count = 0)
              => \A j \in DOMAIN ret.value :
                    /\ ret.value[j].index >= 1
                    /\ (ret.value[j].index - 1) \div 2 < args.marker.properties.point_count

\* a cluster of 1000 points was given 2000 leaves and got 75 positions
C25_Witness ==
    /\ SpiralReturned
    /\ args.marker.properties.point_count = 1000
    /\ Len(args.leaves) = 2000
    /\ args.index = 0
    /\ Len(ret.value) = 75

\* leaf k of the list has properties with an index
LeafValid(k) == ValidChild(args.leaves, k)

\* C26: a sampled leaf without properties or without a numeric index gives
\* no position, and the other positions are those of the call in which
\* every leaf is valid.
C26_SkippedLeafChangesNothing ==
    SpiralReturned =>
        LET whole == [k \in 1..Len(args.leaves) |-> LeafFeature(k - 1)] \o << >>
            all == generateSpiral(args.marker, whole, args.markerList, args.index)
        IN  ret.value = SelectSeq(all, LAMBDA p : LeafValid((p.index - 1) \div 2))

\* a cluster of 60 points whose list has leaves without properties and
\* leaves without index got positions for the others only
C26_Witness ==
    /\ SpiralReturned
    /\ args.marker.properties.point_count = 60
    /\ Len(args.leaves) = 60
    /\ args.index = 0
    /\ \E k \in 0..59 : "properties" \notin DOMAIN args.leaves[k + 1]
    /\ \E k \in 0..59 : /\ "properties" \in DOMAIN args.leaves[k + 1]
                        /\ ~ LeafValid(k)
    /\ Len(ret.value) > 20
    /\ Len(ret.value) < 60

-----------------------------------------------------------------------------
(* Properties: the batched load *)

EffectsRun ==
    /\ []<>("load" \notin dirty) \/ []<><<LoadEffect /\ UNCHANGED callVars>>_vars
    /\ []<>(dirty # {"spider"}) \/ []<><<SpiderEffect /\ UNCHANGED callVars>>_vars

TimersFire ==
    []<>(~ (dirty = {} /\ timers # << >>))
        \/ []<><<BatchTimer /\ UNCHANGED callVars>>_vars

\* the events from outside that a behaviour of SpecLoadLive holds at most
MaxLiveSteps == 2

NextLoadLive ==
    \/ LoadEffect /\ UNCHANGED callVars
    \/ SpiderEffect /\ UNCHANGED callVars
    \/ BatchTimer /\ UNCHANGED callVars
    \/ FrameCallback /\ UNCHANGED callVars
    \/ /\ steps < MaxLiveSteps
       /\ \E region \in LoadRegions : HandleRegionChangeComplete(region)
       /\ UNCHANGED callVars
    \/ /\ steps < MaxLiveSteps
       /\ \E set \in LoadSets : SetChildren(set)
       /\ UNCHANGED callVars
    \/ /\ steps < MaxLiveSteps
       /\ SetClusteringEnabled
       /\ UNCHANGED callVars
    \/ /\ steps < MaxLiveSteps
       /\ \E options \in OptionSets : SetClusterOptions(options)
       /\ UNCHANGED callVars

SpecLoadLive == InitLoad /\ [][NextLoadLive]_vars /\ EffectsRun /\ TimersFire

\* a run of the batched load is waiting for its timer and has not been
\* cancelled
BatchPending == \E t \in DOMAIN timers : ~ timers[t].cancelled

\* the step just taken gave the component new children or options, or
\* switched clustering
Superseding == lastEvent.kind \in {"children", "clusterOptions", "clusteringEnabled"}

\* C28: a batched load that is waiting for its next batch leads to the index
\* being built from all the current children and the cluster list being set,
\* unless new children, new options or a switch of clustering come first.
C28_BatchedLoadFinishes ==
    BatchPending ~>
        \/ /\ LoadCompleted
           /\ lastEvent.kind = "batchTimer"
           /\ superCluster.points = ExpectedPoints(propsChildren)
           /\ markers = ClustersOf(superCluster, currentRegionRef)
        \/ Superseding

\* a batched load has completed although an earlier run of it had been
\* superseded by new children before it completed
C28_Witness ==
    /\ LoadCompleted
    /\ lastEvent.kind = "batchTimer"
    /\ Len(propsChildren) > syncLimit
    /\ superCluster.id = 1
    /\ clusterOptions = DefaultOptions
    /\ steps >= 1
    /\ ~ BatchPending

-----------------------------------------------------------------------------
(* Properties: deferred spider work and settle events without an index *)

C30_SettleWithoutIndexIsInert ==
    [][ (/\ lastEvent'.kind = "regionChangeComplete"
         /\ steps' = steps + 1
         /\ superCluster = NoIndex)
            => /\ markers' = markers
               /\ spiderMarkers' = spiderMarkers
               /\ isSpiderfier' = isSpiderfier
               /\ currentRegion' = currentRegion
               /\ currentRegionRef' = currentRegionRef
               /\ superCluster' = superCluster
               /\ frames' = frames
               /\ out' = << [call |-> "onRegionChangeComplete",
                             arguments |-> << lastEvent'.region, << >> >>] >> ]_vars

\* the map settled on the town while the first, batched load was still
\* waiting for a timer: the component keeps the region it was mounted with
C30_Witness ==
    /\ lastEvent.kind = "regionChangeComplete"
    /\ ~ lastEvent.indexed
    /\ lastEvent.region = Town
    /\ superCluster = NoIndex
    /\ BatchPending
    /\ currentRegion = Wide
    /\ Len(out) = 1

-----------------------------------------------------------------------------
(* Properties: clustering switched off, spiralEnabled never on               *)

\* the load effect has run for the current props and clustering is off
ClusteringOff == ~ clusteringEnabled /\ "load" \notin dirty

\* C31: whenever clusteringEnabled is false and the load effect has run, the
\* component holds no index, the cluster list and the list of spider
\* positions are empty, every child is among the other children, unchanged
\* and in the order of the children list, and no run of a batched load is
\* left that could still commit.
C31_DisabledPassesChildrenThrough ==
    ClusteringOff =>
        /\ superCluster = NoIndex
        /\ markers = << >>
        /\ spiderMarkers = << >>
        /\ otherChildren = propsChildren
        /\ \A t \in DOMAIN timers : timers[t].cancelled

\* what holds of the other values: all of the above but the spider list
OffExceptSpiderList ==
    ClusteringOff =>
        /\ superCluster = NoIndex
        /\ markers = << >>
        /\ otherChildren = propsChildren
        /\ \A t \in DOMAIN timers : timers[t].cancelled

\* The component mounted with spiralEnabled = false and never given another
\* value of it
InitNoSpiral ==
    /\ Mount(SmallSets, FALSE)
    /\ args = NoCall
    /\ ret = NoCall

NextNoSpiral ==
    \/ LoadEffect /\ UNCHANGED callVars
    \/ SpiderEffect /\ UNCHANGED callVars
    \/ FrameCallback /\ UNCHANGED callVars
    \/ \E region \in Regions : HandleRegionChangeComplete(region) /\ UNCHANGED callVars
    \/ \E i \in Pressable, failure \in PressFailures :
          HandleClusterPress(markers[i], failure) /\ UNCHANGED callVars
    \/ \E set \in SmallSets : SetChildren(set) /\ UNCHANGED callVars
    \/ SetClusteringEnabled /\ UNCHANGED callVars
    \/ \E options \in OptionSets : SetClusterOptions(options) /\ UNCHANGED callVars

SpecNoSpiral == InitNoSpiral /\ [][NextNoSpiral]_vars

\* C32: a component whose spiralEnabled is false from the mount on is never
\* spiderfied and its list of spider positions is empty in every state,
\* whatever children, options, settle events and presses it is given.
C32_NeverSpiderfiedWithoutSpiral ==
    /\ ~ spiralEnabled
    /\ ~ isSpiderfier
    /\ spiderMarkers = << >>

\* a cluster was pressed and the viewport has now settled at zoom 18 or more
\* on a list that holds a cluster: all that a spiral needs but spiralEnabled
C32_Witness ==
    /\ ~ spiralEnabled
    /\ Settled
    /\ lastEvent.zoom >= 18
    /\ SomeCluster(markers)
    /\ clusterChildren # Null
    /\ dirty = {"spider"}

-----------------------------------------------------------------------------
(* Properties: the spiderfied state and what is on display                   *)

\* the zoom the handler derives from the region of the most recent
\* viewport-settle event the map delivered
LastSettledZoom ==
    returnMapZoom(mapRegion, calculateBBox(mapRegion), clusterOptions.minZoom)

\* C33: whenever the component is spiderfied and holds an index, the zoom
\* derived from the most recent viewport-settle event is 18 or more.
C33_SpiderfiedOnlyAtHighZoom ==
    (isSpiderfier /\ superCluster # NoIndex) => LastSettledZoom >= 18

\* the feature is a leaf whose index is the position, in the current
\* children list, of the marker it was made from (what the render looks up:
\* propsChildren[marker.properties.index])
LeafOfCurrentChild(feature) ==
    /\ "index" \in DOMAIN feature.properties
    /\ feature.properties.index \in 0..(Len(propsChildren) - 1)
    /\ isMarker(At(propsChildren, feature.properties.index))
    /\ feature = markerToGeoJSONFeature(At(propsChildren, feature.properties.index),
                                        feature.properties.index)

\* every leaf of the displayed list is a leaf of a current child
LeavesOfCurrentChildren ==
    \A i \in DOMAIN markers :
        markers[i].properties.point_count = 0 => LeafOfCurrentChild(markers[i])

\* C34: once the load effect has run for the current children, every leaf
\* feature (point_count = 0) of the displayed list carries the index of the
\* marker, in the current children list, that it was made from; this holds
\* while a batched load of those children waits for its timers and after the
\* settle events handled meanwhile.
C34_LeafIndexIdentifiesMarker ==
    "load" \notin dirty => LeavesOfCurrentChildren

-----------------------------------------------------------------------------
(* Properties: what one press does                                           *)

\* how many of the calls are calls of one of the names
CallsOf(calls, names) == Cardinality({i \in DOMAIN calls : calls[i].call \in names})

\* the frame callback a press has requested, if it requested one
PressFrames == IF frames' = frames THEN << >> ELSE << frames'[Len(frames')] >>

\* C35: a handled press invokes onClusterPress exactly once and moves the
\* viewport at most once, counting the calls of the handler and of the frame
\* callback it requests: the handler and its callback together make one call
\* of onClusterPress and at most one of animateToRegion and
\* fitToCoordinates, on every path (no cluster_id, preserved press, expansion
\* zoom, a throw of getClusterExpansionZoom or of onClusterPress).
C35_OnePressOneCallback ==
    [][ /\ PressStep =>
             LET deferred == PressFrames
                 fits == {i \in DOMAIN deferred :
                             /\ deferred[i].kind = "fitToLeaves"
                             /\ Len(deferred[i].leaves) > 0}
             IN  /\ CallsOf(out', {"onClusterPress"}) + Len(deferred) = 1
                 /\ CallsOf(out', Navigations) + Cardinality(fits) <= 1
        /\ FrameStep("pressCallback") =>
             /\ CallsOf(out', {"onClusterPress"}) = 1
             /\ CallsOf(out', Navigations) = 0
        /\ FrameStep("fitToLeaves") =>
             /\ CallsOf(out', {"onClusterPress"}) = 1
             /\ CallsOf(out', {"animateToRegion"}) = 0
             /\ CallsOf(out', {"fitToCoordinates"})
                   = (IF Len(Head(frames).leaves) > 0 THEN 1 ELSE 0)
    ]_vars

\* the same for the presses during which onClusterPress does not throw
OnePressOneCallbackUnlessItThrows ==
    [][ /\ (PressStep /\ lastEvent'.failure # "onClusterPress") =>
             LET deferred == PressFrames
                 fits == {i \in DOMAIN deferred :
                             /\ deferred[i].kind = "fitToLeaves"
                             /\ Len(deferred[i].leaves) > 0}
             IN  /\ CallsOf(out', {"onClusterPress"}) + Len(deferred) = 1
                 /\ CallsOf(out', Navigations) + Cardinality(fits) <= 1
        /\ FrameStep("pressCallback") =>
             /\ CallsOf(out', {"onClusterPress"}) = 1
             /\ CallsOf(out', Navigations) = 0
        /\ FrameStep("fitToLeaves") =>
             /\ CallsOf(out', {"onClusterPress"}) = 1
             /\ CallsOf(out', {"animateToRegion"}) = 0
             /\ CallsOf(out', {"fitToCoordinates"})
                   = (IF Len(Head(frames).leaves) > 0 THEN 1 ELSE 0)
    ]_vars

-----------------------------------------------------------------------------
(* The spider effect with its scheduling: a pending effect runs, a requested *)
(* frame comes                                                               *)

\* the events from outside that a behaviour of SpecQuiet holds at most
MaxQuietSteps == 3

QuietRegions == {Town, Doorstep}

NextQuiet ==
    \/ LoadEffect /\ UNCHANGED callVars
    \/ SpiderEffect /\ UNCHANGED callVars
    \/ FrameCallback /\ UNCHANGED callVars
    \/ /\ steps < MaxQuietSteps
       /\ \E region \in QuietRegions : HandleRegionChangeComplete(region)
       /\ UNCHANGED callVars
    \/ /\ steps < MaxQuietSteps
       /\ \E i \in Pressable : HandleClusterPress(markers[i], "none")
       /\ UNCHANGED callVars
    \/ /\ steps < MaxQuietSteps
       /\ \E set \in SmallSets : SetChildren(set)
       /\ UNCHANGED callVars
    \/ /\ steps < MaxQuietSteps
       /\ SetSpiralEnabled
       /\ UNCHANGED callVars

\* the browser or the native run loop delivers every requested frame: the
\* weak fairness of FrameCallback, written as EffectsRun is, with the guard
\* of the action for ENABLED (every step of it shortens frames)
FramesCome ==
    []<>(~ (dirty = {} /\ frames # << >>))
        \/ []<><<FrameCallback /\ UNCHANGED callVars>>_vars

SpecQuiet == Init /\ [][NextQuiet]_vars /\ EffectsRun /\ FramesCome

\* no effect is pending and no frame is requested
Quiescent == dirty = {} /\ frames = << >>

\* C36: the effects and the frame callbacks that an event sets off come to an
\* end: from every state with a pending effect or a requested frame the
\* component reaches a state with neither, spiderfied or not; the spider
\* effect's own updates of the list do not keep it running.
C36_SpiderWorkSettles == (~ Quiescent) ~> Quiescent

\* spiderfied on a native platform: the first frame filled the list, the
\* change of its length ran the effect again, and the second frame wrote a
\* list of the same length and left nothing to run
C36_Witness ==
    /\ Quiescent
    /\ isSpiderfier
    /\ spiderMarkers # << >>
    /\ ~ platformWeb
    /\ lastEvent = [kind |-> "frame", callback |-> "generateSpiderMarkers"]

-----------------------------------------------------------------------------
(* Properties: the region a press zooms to                                   *)

\* the zoom the index gives for the cluster just pressed
PressedExpansionZoom ==
    getClusterExpansionZoom(superClusterRef_, lastEvent.cluster.properties.cluster_id)

\* C37: the region of every animateToRegion call of a press is derived from
\* min(getClusterExpansionZoom(cluster_id), maxZoom): its latitudeDelta is
\* 100 / 2 ** (zoom - 1) for that zoom, never less than at maxZoom, its
\* longitudeDelta is that times width / height, and its centre is the
\* pressed cluster's own coordinates.
C37_ExpansionZoomClamped ==
    \A i \in DOMAIN out :
        out[i].call = "animateToRegion" =>
            LET region == out[i].arguments[1]
                zoom == Min(PressedExpansionZoom, clusterOptions.maxZoom)
            IN  /\ lastEvent.kind = "clusterPress"
                /\ region.latitude = lastEvent.cluster.geometry.coordinates[2]
                /\ region.longitude = lastEvent.cluster.geometry.coordinates[1]
                /\ region.latitudeDelta = Deg(100) \div Pow2(zoom - 1)
                /\ region.latitudeDelta >= Deg(100) \div Pow2(clusterOptions.maxZoom - 1)
                /\ region.longitudeDelta = (region.latitudeDelta * width) \div height
                /\ out[i].arguments[2] = 250

\* a press of a cluster of markers at one place, which the index keeps
\* together up to maxZoom and for which it returns maxZoom + 1, has zoomed to
\* the region of maxZoom around the cluster
C37_Witness ==
    /\ lastEvent.kind = "clusterPress"
    /\ lastEvent.failure = "none"
    /\ ~ preserveClusterPressBehavior
    /\ PressedExpansionZoom = clusterOptions.maxZoom + 1
    /\ Len(out) = 2
    /\ out[1].call = "animateToRegion"
    /\ out[1].arguments[1].latitudeDelta = Deg(100) \div Pow2(clusterOptions.maxZoom - 1)
    /\ out[1].arguments[1].latitudeDelta > 0

-----------------------------------------------------------------------------
(* Properties: the cache of sines and cosines                                *)

\* C38: the cache is transparent. The two-decimal keys of the cached angles
\* (the multiples of 1/32 below 25) are all different, so no entry replaces
\* another; for every position generateSpiral returns, an angle below 25 has
\* a key in the cache and is handed the sine and cosine of exactly that
\* angle, and an angle of 25 or more has no key in the cache and is handed
\* those computed from the angle itself.
C38_TrigCacheTransparent ==
    /\ \A k \in 1..(CacheEntries - 1) : toFixed2(k - 1) < toFixed2(k)
    /\ SpiralReturned =>
          \A j \in DOMAIN ret.value :
              LET angle32 == 4 * ret.value[j].angle8
                  hit == toFixed2(angle32) \in DOMAIN ANGLE_CACHE
              IN  /\ hit <=> angle32 < CacheEntries
                  /\ hit => ANGLE_CACHE[toFixed2(angle32)] = angle32
                  /\ ret.value[j].trig = angle32

\* the positions of a cluster of 300 leaves: angles inside the cache and
\* angles beyond it
C38_Witness ==
    /\ SpiralReturned
    /\ args.marker.properties.point_count = 300
    /\ \E j \in DOMAIN ret.value :
          /\ ret.value[j].angle8 > 0
          /\ 4 * ret.value[j].angle8 < CacheEntries
    /\ \E j \in DOMAIN ret.value : 4 * ret.value[j].angle8 >= CacheEntries

=============================================================================
